---- MODULE Spec2Model ----
(***************************************************************************)
(* clauchat: ClauChatApp (src/app.rs), AnthropicClient (src/api.rs), the   *)
(* pricing table loader (src/price.rs), the settings panel (src/ui.rs),    *)
(* the configuration file (src/config.rs) and the code block scanner       *)
(* (src/chat_render.rs).                                                   *)
(*                                                                         *)
(* The processes are                                                       *)
(*   - the render thread, which runs ClauChatApp::update once per frame    *)
(*     and is suspended inside send_message while runtime.block_on waits   *)
(*     for the key validation request;                                     *)
(*   - one background task per accepted send (runtime.spawn), which        *)
(*     suspends at every .await;                                           *)
(*   - the server, which chooses the outcome of every request and the      *)
(*     next line of a streaming body;                                      *)
(*   - the estimator thread of ClauChatApp::init.                          *)
(*                                                                         *)
(* The specifications share the variables:                                 *)
(*   Spec           the program, frame by frame;                           *)
(*   StreamSpec     the sequence of send_message_streaming, polled alone;  *)
(*   EstimatorSpec  the input box, the channel and the estimator thread;   *)
(*   CallSpec       one call of a function of api.rs on every response of  *)
(*                  a bounded set;                                         *)
(*   PriceSpec      one call of a function of price.rs, or of the cost     *)
(*                  estimate of app.rs, on every input of a bounded set;   *)
(*   ConfigSpec     the settings panel and the configuration file;         *)
(*   RenderSpec     one call of find_code_blocks (src/chat_render.rs) on   *)
(*                  every content of a bounded set.                        *)
(*                                                                         *)
(* Text is a sequence of characters (one-character strings); a few fixed   *)
(* texts produced by format!/to_string are kept as one atom each.          *)
(***************************************************************************)
EXTENDS Integers, Sequences, FiniteSets, TLC

\* ------------------------------------------------------------------------
\* Bounds of the model
\* ------------------------------------------------------------------------

\* accepted sends explored (each spawns one task and creates one channel)
MaxSends == 2

\* lines of one streaming body that a task reads before the body ends
MaxLines == 3

\* lines of a streaming body when the sequence is polled on its own
MaxBody == 3

\* capacity of the stream channel; stands for tokio_mpsc::channel(100) of
\* app.rs:306, scaled down so that a full channel is reached
ChannelCapacity == 2

\* ------------------------------------------------------------------------
\* Text
\* ------------------------------------------------------------------------

\* app.rs:19  "Err\u{274}r:"  (the fourth character, U+0274, is written N)
STREAM_ERROR_TOKEN == <<"E", "r", "r", "N", "r", ":">>

\* characters removed by str::trim
Whitespace == {" ", "\t", "\n"}

\* s.trim().is_empty() without the trim: a plausible slip
IsBlankNoTrim(s) == Len(s) = 0

\* app.rs:258, ui.rs:227   input.trim().is_empty()
IsBlank(s) == \A k \in 1..Len(s) : s[k] \in Whitespace

\* str::starts_with
StartsWith(s, p) == Len(s) >= Len(p) /\ SubSeq(s, 1, Len(p)) = p

\* format!("{} {}", STREAM_ERROR_TOKEN, e) with the separator forgotten and
\* the token replaced by the plain word: a plausible slip
ErrorContentPlain(e) == <<"Error: ">> \o e

\* app.rs:332, app.rs:341   format!("{} {}", STREAM_ERROR_TOKEN, e)
ErrorContent(e) == STREAM_ERROR_TOKEN \o <<" ">> \o e

\* ------------------------------------------------------------------------
\* Values
\* ------------------------------------------------------------------------

\* Option::None / Option::Some for texts
NoText == [some |-> FALSE, v |-> <<>>]
SomeText(t) == [some |-> TRUE, v |-> t]

\* api.rs:29-32
Message(role, content) == [role |-> role, content |-> content]

\* Option<ResponseUsage>::None
NoUsage == [some |-> FALSE, input_tokens |-> 0, output_tokens |-> 0]

\* Some(ResponseUsage { input_tokens, output_tokens })  (api.rs:141-144)
SomeUsage == [some |-> TRUE, input_tokens |-> 10, output_tokens |-> 20]

\* Option<HashMap<String, ModelPricing>>::None: the pricing table could not
\* be fetched (price.rs:24-29)
NoPricing ==
    [some |-> FALSE, has_model |-> FALSE,
     input_cost_per_million |-> 0, output_cost_per_million |-> 0]

\* Some(table): has_model tells whether the table has a row for the model
\* in use, and the costs are those of that row (price.rs:8-14)
SomePricing(has_model, input_cost, output_cost) ==
    [some |-> TRUE, has_model |-> has_model,
     input_cost_per_million |-> IF has_model THEN input_cost ELSE 0,
     output_cost_per_million |-> IF has_model THEN output_cost ELSE 0]

\* what fetch_model_pricing can have returned to ClauChatApp::new
PricingTables == {NoPricing, SomePricing(FALSE, 0, 0), SomePricing(TRUE, 3, 15)}

\* app.rs:181: one of the two unwraps of usage_as_cost panics
UsageAsCostPanics(pricing) == ~pricing.some \/ ~pricing.has_model

\* app.rs:180-185, in millionths of a dollar:
\* input_cost_per_million * (input_tokens / 1000000) + the same for output
UsageAsCost(pricing, usage) ==
    pricing.input_cost_per_million * usage.input_tokens
    + pricing.output_cost_per_million * usage.output_tokens

\* AppMessageDelta::default()  (app.rs:316)
DefaultDelta == [content |-> <<>>, is_complete |-> FALSE, usage |-> NoUsage]

\* app.rs:266
NotConfiguredText == <<"API key not configured. Please add it in settings.">>

\* app.rs:286
BadKeyText == <<"Bad API key, request process canceled">>

\* ------------------------------------------------------------------------
\* Inputs chosen by the user and by the server
\* ------------------------------------------------------------------------

\* API keys typed into the settings panel ("" clears the key)
Keys == {<<>>, <<"k">>}

\* texts typed into the input field: empty, only whitespace, a question
Inputs == {<<>>, <<" ">>, <<"q">>}

\* text increments carried by content_block_delta events; the model's text
\* is arbitrary, so it may itself begin with the characters of the token
TextIncrements == {<<"a">>, STREAM_ERROR_TOKEN}

\* what the validation request meets: no response (DNS, timeout, reset),
\* or a response with a status
ValidationResponses ==
    {[kind |-> "transport_error", status |-> 0]}
    \cup {[kind |-> "status", status |-> st] : st \in {200, 304, 401, 500}}

\* every status below the client errors taken for a success: a plausible
\* slip
IsBelowClientError(status) == status < 400

\* StatusCode::is_success (api.rs:204): 200..=299
IsSuccess(status) == status >= 200 /\ status < 300

\* AnthropicClient::is_api_key_valid (api.rs:188-206): Err(transport) from
\* the ? of api.rs:202, else Ok(status.is_success())
IsApiKeyValid(response) ==
    IF response.kind = "transport_error" THEN "err"
    ELSE IF IsSuccess(response.status) THEN "ok_true"
    ELSE "ok_false"

\* outcomes of AnthropicClient::is_api_key_valid:
\* Ok(true), Ok(false), Err(transport)
ValidationResults == {IsApiKeyValid(r) : r \in ValidationResponses}

\* a line of the streaming body as LinesStream yields it; usage is the
\* usage the response has reported by the time of this line
Line(prefix, type, delta_type, text) ==
    [prefix |-> prefix, type |-> type, delta_type |-> delta_type, text |-> text,
     usage |-> NoUsage]

WithUsage(line, usage) == [line EXCEPT !.usage = usage]

\* data: payloads that deserialize into a StreamEvent (api.rs:47-80) but are
\* neither a content_block_delta nor message_stop
OtherEventTypes ==
    {"message_start", "content_block_start", "content_block_stop",
     "message_delta", "ping", "error"}

\* data: payloads that serde_json::from_str::<StreamEvent> rejects: a type
\* tag that is no variant, text that is not JSON, a known variant with a
\* required field missing
RejectedPayloads == {"unknown_type", "not_json", "missing_field"}

Lines ==
    {Line("read_error", "", "", <<>>),
     Line("blank", "", "", <<>>),
     Line("event", "", "", <<>>),
     Line("other", "", "", <<>>),
     Line("data", "message_stop", "", <<>>),
     WithUsage(Line("data", "message_stop", "", <<>>), SomeUsage)}
    \cup {Line("data", "content_block_delta", "text_delta", t) : t \in TextIncrements}
    \cup {Line("data", "content_block_delta", "input_json_delta", <<"a">>)}
    \cup {Line("data", ty, "", <<>>) : ty \in OtherEventTypes \cup RejectedPayloads}

\* Display of the errors that reach the task
TransportErrorText == <<"error sending request">>
ParseErrorText == <<"Error parsing stream event">>
ReadErrorText == <<"Error reading stream line ">> \o <<"connection reset">>

\* Display of StatusCode: the code and its canonical reason
StatusDisplay(status) ==
    CASE status = 200 -> <<"200", " ", "OK">>
      [] status = 304 -> <<"304", " ", "Not Modified">>
      [] status = 401 -> <<"401", " ", "Unauthorized">>
      [] status = 429 -> <<"429", " ", "Too Many Requests">>
      [] status = 500 -> <<"500", " ", "Internal Server Error">>

\* the body  {"error":"rate_limited"}  of a response
RateLimitedBody == <<"{", "\"error\"", ":", "\"", "rate_limited", "\"", "}">>

\* the error text without the body: a plausible slip
ApiErrorTextNoBody(status, body) ==
    <<"API error (">> \o StatusDisplay(status) \o <<")">>

\* api.rs:234-239, api.rs:286-291
\* format!("API error ({}): {}", status, error_text)
ApiErrorText(status, body) ==
    <<"API error (">> \o StatusDisplay(status) \o <<"): ">> \o body

\* errors with which send_message_streaming returns before a stream exists:
\* the request fails (api.rs:284), the status is not a success
\* (api.rs:286-291), reading the error body fails (api.rs:288)
OpenErrors ==
    {TransportErrorText,
     ApiErrorText(429, RateLimitedBody)}

\* ------------------------------------------------------------------------
\* AnthropicClient::send_message_streaming: one line to one stream item
\* ------------------------------------------------------------------------

NoItem == [kind |-> "None", content |-> <<>>, is_complete |-> FALSE,
           usage |-> NoUsage, error |-> <<>>]

\* Some(Ok(StreamingBuffer { content, is_complete })); the buffers built at
\* api.rs:320-323 and api.rs:329-332 carry no usage
OkItem(content, is_complete) ==
    [kind |-> "Ok", content |-> content, is_complete |-> is_complete,
     usage |-> NoUsage, error |-> <<>>]

\* Some(Err(e))
ErrItem(e) == [kind |-> "Err", content |-> <<>>, is_complete |-> FALSE,
               usage |-> NoUsage, error |-> e]

\* the usage field of the StreamingBuffer built for the completion marker:
\* app.rs:325 reads buffer.usage, the code that fills it is not in api.rs;
\* usage is terminal metadata attached to the final delta (spec, section 3)
BufferUsage(line) == line.usage

\* the delta type is not looked at: a plausible slip
AnyDeltaType(delta_type) == TRUE

\* api.rs:316   delta.delta_type == "text_delta"
IsTextDelta(delta_type) == delta_type = "text_delta"

\* the closure with an arm for Err(e) of serde_json::from_str that
\* surfaces the parse error: unknown event types then end the stream
EventStreamItemStrict(line) ==
    IF line.prefix = "read_error" THEN ErrItem(ReadErrorText)
    ELSE IF line.prefix = "data" /\ line.type = "content_block_delta"
         /\ IsTextDelta(line.delta_type)
    THEN OkItem(line.text, FALSE)
    ELSE IF line.prefix = "data" /\ line.type = "message_stop"
    THEN [OkItem(<<>>, TRUE) EXCEPT !.usage = BufferUsage(line)]
    ELSE IF line.prefix = "data" /\ line.type \in RejectedPayloads
    THEN ErrItem(ParseErrorText)
    ELSE NoItem

\* api.rs:300-341, the closure given to filter_map
EventStreamItem(line) ==
    IF line.prefix = "read_error" THEN ErrItem(ReadErrorText)
    ELSE IF line.prefix = "blank" THEN NoItem
    ELSE IF line.prefix = "event" THEN NoItem
    ELSE IF line.prefix = "data" THEN
        IF line.type = "content_block_delta" THEN
            IF IsTextDelta(line.delta_type)
            THEN OkItem(line.text, FALSE)
            ELSE NoItem
        ELSE IF line.type = "message_stop"
        THEN [OkItem(<<>>, TRUE) EXCEPT !.usage = BufferUsage(line)]
        ELSE NoItem
    ELSE NoItem

\* ------------------------------------------------------------------------
\* The background task's local steps (app.rs:315-346)
\* ------------------------------------------------------------------------

\* content_delta.content = buffer.content: the increment overwrites the
\* accumulator instead of extending it
OverwriteContent(acc, inc) == inc

\* app.rs:323   content_delta.content.push_str(&buffer.content)
PushStr(acc, inc) == acc \o inc

\* the loop of app.rs:320 without its break
NeverBreaks(delta) == FALSE

\* app.rs:327-329   if content_delta.is_complete { break; }
BreaksAfterSend(delta) == delta.is_complete

\* app.rs:322-325, the Ok arm: the delta sent for a buffer
OkDelta(content_delta, buffer) ==
    [content |-> PushStr(content_delta.content, buffer.content),
     is_complete |-> buffer.is_complete,
     usage |-> buffer.usage]

\* app.rs:332-333 and app.rs:341-342, the Err arms: the delta sent for an
\* error; usage is whatever the last buffer left in content_delta
ErrDelta(content_delta, e) ==
    [content |-> ErrorContent(e),
     is_complete |-> TRUE,
     usage |-> content_delta.usage]

\* the locals of the loop of app.rs:320-337 when the channel always has
\* room: the accumulator, the deltas given to tx.send, and whether the loop
\* has been left
NewAggregator ==
    [content_delta |-> DefaultDelta, pushed |-> <<>>, stopped |-> FALSE]

\* app.rs:320-337: one pass of the loop body for the element item
AggregatorStep(agg, item) ==
    IF agg.stopped \/ item.kind = "None" THEN agg
    ELSE IF item.kind = "Ok"
    THEN LET d == OkDelta(agg.content_delta, item)
         IN  [content_delta |-> d, pushed |-> Append(agg.pushed, d),
              stopped |-> BreaksAfterSend(d)]
    ELSE LET d == ErrDelta(agg.content_delta, item.error)
         IN  [content_delta |-> d, pushed |-> Append(agg.pushed, d),
              stopped |-> TRUE]

\* ------------------------------------------------------------------------
\* The stream channel (tokio_mpsc::channel, app.rs:306)
\* ------------------------------------------------------------------------

\* a receiver that hands out the newest delta first
RecvIndexNewest(q) == Len(q)

\* Receiver::try_recv takes the oldest queued value
RecvIndex(q) == 1

\* the queue after a receive repeated until try_recv fails
Drained(q, k) == <<>>

\* the queue without its k-th element
Without(q, k) == SubSeq(q, 1, k - 1) \o SubSeq(q, k + 1, Len(q))

\* ------------------------------------------------------------------------
\* ClauChatApp::handle_stream_response (app.rs:187-210)
\* ------------------------------------------------------------------------

\* the delta is taken for an increment and appended to what is shown
AppendToContent(old, new) == old \o new

\* app.rs:198   last_message.content = content_delta.content
AssignContent(old, new) == new

\* the content is pushed as a further message, as the deprecated
\* handle_api_response does (app.rs:221)
PushAsMessage(msgs, content) == Append(msgs, Message("Assistant", content))

\* app.rs:196-198   the last message's content is replaced in place
SetLastContent(msgs, content) ==
    [msgs EXCEPT ![Len(msgs)].content = AssignContent(@, content)]

\* the test of is_complete moved into the branch that shows content: the
\* terminal delta of a failed send then leaves is_sending set
ClearsSendingUnlessError(delta) ==
    delta.is_complete /\ ~StartsWith(delta.content, STREAM_ERROR_TOKEN)

\* is_sending is cleared by every delta
ClearsSendingAlways(delta) == TRUE

\* is_sending is cleared as soon as a delta brings text
ClearsSendingOnText(delta) == delta.is_complete \/ delta.content /= <<>>

\* app.rs:207   if content_delta.is_complete
ClearsSending(delta) == delta.is_complete

\* the placeholder of a failed send is removed from the conversation: a
\* plausible variant
AssignedDeltaDropsPlaceholder(app, delta) ==
    IF StartsWith(delta.content, STREAM_ERROR_TOKEN)
    THEN [app EXCEPT !.error = SomeText(delta.content),
                     !.messages = SubSeq(@, 1, Len(@) - 1)]
    ELSE IF Len(app.messages) > 0
            /\ app.messages[Len(app.messages)].role = "Assistant"
         THEN [app EXCEPT !.messages =
                   SetLastContent(app.messages, delta.content)]
         ELSE app

\* app.rs:188-190 and app.rs:196-198: where the content of the delta goes;
\* app is the record of the ClauChatApp fields
AssignedDelta(app, delta) ==
    IF StartsWith(delta.content, STREAM_ERROR_TOKEN)
    THEN [app EXCEPT !.error = SomeText(delta.content)]
    ELSE IF Len(app.messages) > 0
            /\ app.messages[Len(app.messages)].role = "Assistant"
         THEN [app EXCEPT !.messages =
                   SetLastContent(app.messages, delta.content)]
         ELSE app

\* every delta is charged, one without usage as a usage of zero tokens
AddsCostAlways(app, delta) == TRUE

\* app.rs:192-195 and app.rs:200-203: the branches that add
\* usage_as_cost(usage) to ui_state.total_cost
AddsCost(app, delta) ==
    /\ delta.usage.some
    /\ \/ StartsWith(delta.content, STREAM_ERROR_TOKEN)
       \/ /\ Len(app.messages) > 0
          /\ app.messages[Len(app.messages)].role = "Assistant"

\* the handler when usage_as_cost does not panic; what it adds to
\* ui_state.total_cost is recorded in cost_added by Update
HandleStreamResponse(app, delta) ==
    LET a1 == AssignedDelta(app, delta)
    IN  IF ClearsSending(delta) THEN [a1 EXCEPT !.is_sending = FALSE] ELSE a1

\* ------------------------------------------------------------------------
\* ClauChatApp::update_api_key (app.rs:372-381)
\* ------------------------------------------------------------------------

NoClient == [some |-> FALSE, api_key |-> <<>>]

\* AnthropicClient::new(model, api_key)  (api.rs:175-186)
SomeClient(key) == [some |-> TRUE, api_key |-> key]

UpdateApiKey(app, new_key) ==
    IF new_key /= <<>>
    THEN [app EXCEPT !.api_key = new_key,
                     !.client = SomeClient(new_key),
                     !.error = NoText]
    ELSE [app EXCEPT !.api_key = new_key,
                     !.client = NoClient]

\* ------------------------------------------------------------------------
\* State
\* ------------------------------------------------------------------------

VARIABLES
    \* fields of ClauChatApp (app.rs:22-63)
    input,            \* text in the input field
    messages,         \* conversation: sequence of Message
    is_sending,       \* a send is in progress
    api_key,          \* config.api_key
    client,           \* Option<AnthropicClient>
    stream_receiver,  \* 0 for None, else the index of the channel it reads
    input_sender,     \* TRUE when the channel to the estimator thread exists
    error,            \* Option<String>
    pricing_data,     \* Option<HashMap<String, ModelPricing>>
    \* the render thread
    ui_pc,            \* "frame": between two frames; "validating": inside
                      \* send_message, suspended in runtime.block_on
    should_send_input,\* update's local of that name while ui_pc = "validating"
    crashed,          \* the process has panicked
    \* the async executor
    channels,         \* channels[i]: deltas queued in the channel of send i
    tasks,            \* tasks[i]: the task spawned by send i
    \* history of the newest send (forgotten when the next one is accepted)
    yielded,          \* yielded[i]: the items stream.next() gave to task i
    failures,         \* failures[i]: the errors task i ran into
    pushed,           \* pushed[i]: the deltas task i put into its channel
    received,         \* the deltas try_recv returned, oldest first
    cost_added,       \* the amounts added to ui_state.total_cost
    last_enter,       \* Enter was pressed in the most recent frame
    \* the sequence returned by send_message_streaming, polled on its own
    stream_lines,     \* the lines of the body read so far
    stream_items,     \* the elements the sequence has produced so far
    stream_ended,     \* the sequence has returned None
    aggregator,       \* the loop of app.rs:320-337 fed with these elements
    \* the estimator thread (app.rs:153-175) and what it shares
    input_channel,    \* the texts queued in the channel of app.rs:136
    estimator,        \* the thread's position and locals
    input_cost,       \* the mutex-guarded slot (app.rs:60)
    input_cost_display, \* ui_state.input_cost_display
    sent_input,       \* history: the newest text handed to the channel
    \* the configuration (config.rs) and the settings panel
    theme,            \* config.theme
    font_size,        \* config.font_size
    dragging,         \* the font size slider is being dragged
    persisted,        \* the configuration file
    \* one function of api.rs or price.rs called on its own
    call,             \* the function and its argument
    returned          \* what it returned

vars == <<input, messages, is_sending, api_key, client, stream_receiver,
          input_sender, error, ui_pc, should_send_input, crashed,
          channels, tasks, yielded, failures, pushed, received, last_enter,
          pricing_data, cost_added,
          stream_lines, stream_items, stream_ended, aggregator,
          input_channel, estimator, input_cost, input_cost_display, sent_input,
          theme, font_size, dragging, persisted, call, returned>>

appVars == <<input, messages, is_sending, api_key, client, stream_receiver,
             error>>

taskVars == <<channels, tasks, yielded, failures, pushed>>

streamVars == <<stream_lines, stream_items, stream_ended, aggregator>>

costVars == <<pricing_data, cost_added>>

estimatorVars == <<input_channel, estimator, input_cost, input_cost_display,
                   sent_input>>

configVars == <<theme, font_size, dragging, persisted>>

callVars == <<call, returned>>

\* everything but streamVars
programVars == <<appVars, input_sender, ui_pc, should_send_input, crashed,
                 taskVars, received, last_enter, costVars,
                 estimatorVars, configVars, callVars>>

\* the fields of ClauChatApp the frame works on, as one record
AppState ==
    [input |-> input, messages |-> messages, is_sending |-> is_sending,
     api_key |-> api_key, client |-> client,
     stream_receiver |-> stream_receiver, error |-> error]

SetApp(app) ==
    /\ input' = app.input
    /\ messages' = app.messages
    /\ is_sending' = app.is_sending
    /\ api_key' = app.api_key
    /\ client' = app.client
    /\ stream_receiver' = app.stream_receiver
    /\ error' = app.error

\* Option<Result<f64, String>>::None, Some(Ok(cost)): the slot of app.rs:60
\* and the Option<f64> of ui.rs:13
NoCost == [some |-> FALSE, v |-> 0]
SomeCost(c) == [some |-> TRUE, v |-> c]

\* the estimator thread blocked in its first recv (app.rs:155)
NewEstimator == [pc |-> "recv", input |-> <<>>, cost |-> 0]

\* Theme::default() and the font size of Config::default (config.rs:15-33)
DefaultTheme == "dark"
DefaultFontSize == 16

\* the configuration file: absent, or a JSON document with the three
\* fields of Config (config.rs:8-13)
NoDocument ==
    [exists |-> FALSE, api_key |-> <<>>, theme |-> DefaultTheme,
     font_size |-> DefaultFontSize]
Document(key, th, size) ==
    [exists |-> TRUE, api_key |-> key, theme |-> th, font_size |-> size]

\* no function is being looked at on its own
NoCall == [fn |-> "none"]
NotReturned == [kind |-> "pending"]

\* ClauChatApp::new (app.rs:67-109) but for the configuration; the key is
\* whatever Config::load found
NewApp ==
    /\ input = <<>>
    /\ messages = <<Message("Assistant", <<"How can I help you?">>)>>
    /\ is_sending = FALSE
    /\ api_key \in Keys
    /\ client = IF api_key /= <<>> THEN SomeClient(api_key) ELSE NoClient
    /\ stream_receiver = 0
    /\ input_sender = FALSE
    /\ error = NoText
    /\ pricing_data \in PricingTables
    /\ cost_added = <<>>
    /\ ui_pc = "frame"
    /\ should_send_input = FALSE
    /\ crashed = FALSE
    /\ channels = <<>>
    /\ tasks = <<>>
    /\ yielded = <<>>
    /\ failures = <<>>
    /\ pushed = <<>>
    /\ received = <<>>
    /\ last_enter = FALSE
    /\ stream_lines = <<>>
    /\ stream_items = <<>>
    /\ stream_ended = FALSE
    /\ aggregator = NewAggregator
    /\ input_channel = <<>>
    /\ estimator = NewEstimator
    /\ input_cost = NoCost
    /\ input_cost_display = NoCost
    /\ sent_input = NoText

\* ClauChatApp::new (app.rs:67-109) when the configuration file holds the
\* default theme and font size
Init ==
    /\ NewApp
    /\ theme = DefaultTheme
    /\ font_size = DefaultFontSize
    /\ dragging = FALSE
    /\ persisted = Document(api_key, DefaultTheme, DefaultFontSize)
    /\ call = NoCall
    /\ returned = NotReturned

\* ------------------------------------------------------------------------
\* The render thread
\* ------------------------------------------------------------------------

\* ClauChatApp::init (app.rs:134-178): creates the channel to the estimator
\* thread (app.rs:135-139), unwraps the price of the model (app.rs:142-146)
\* and starts that thread
AppInit ==
    /\ ui_pc = "frame"
    /\ ~crashed
    /\ ~input_sender
    /\ input_sender' = TRUE
    /\ crashed' = UsageAsCostPanics(pricing_data)
    /\ UNCHANGED <<appVars, ui_pc, should_send_input, taskVars,
                   received, last_enter, costVars>>
    /\ UNCHANGED <<streamVars, estimatorVars, configVars, callVars>>

\* what the user did during a frame: nothing, or a new value
Nothing == [some |-> FALSE, v |-> <<>>]
Changed(v) == [some |-> TRUE, v |-> v]
KeyEvents == {Nothing} \cup {Changed(k) : k \in Keys}
InputEvents == {Nothing} \cup {Changed(t) : t \in Inputs}

\* app.rs:408-409: a receiver exists and try_recv returns Ok
Polled == stream_receiver /= 0 /\ Len(channels[stream_receiver]) > 0

PolledDelta ==
    channels[stream_receiver][RecvIndex(channels[stream_receiver])]

\* app.rs:408-412
AfterPoll ==
    IF Polled THEN HandleStreamResponse(AppState, PolledDelta) ELSE AppState

\* app.rs:427-433: render_header reports a changed key
AfterHeader(new_key) ==
    IF new_key.some THEN UpdateApiKey(AfterPoll, new_key.v) ELSE AfterPoll

\* app.rs:446, ui.rs:170-182: the text edit writes the input field
AfterInput(new_key, new_input) ==
    IF new_input.some
    THEN [AfterHeader(new_key) EXCEPT !.input = new_input.v]
    ELSE AfterHeader(new_key)

\* ui.rs:223-229: on_send is called
ShouldSendMessage(app, pressed_enter) ==
    pressed_enter /\ ~IsBlank(app.input) /\ ~app.is_sending

\* app.rs:258-260: send_message returns at once
ReturnsEarly(app) == IsBlank(app.input) \/ app.is_sending

\* the input is taken before the client is looked at: a plausible slip
NotConfiguredTakesInput(app) ==
    [app EXCEPT !.error = SomeText(NotConfiguredText), !.input = <<>>]

\* app.rs:262-269: send_message without a client
NotConfigured(app) == [app EXCEPT !.error = SomeText(NotConfiguredText)]

\* app.rs:111-118: send_input_required unwraps input_sender
SendInputPanics(should_send) == should_send /\ ~input_sender

\* app.rs:194, app.rs:202: the received delta carries usage and
\* usage_as_cost panics
PollPanics ==
    /\ Polled
    /\ AddsCost(AppState, PolledDelta)
    /\ UsageAsCostPanics(pricing_data)

\* ClauChatApp::update (app.rs:393-460), up to the end of the frame, to the
\* block_on of send_message (app.rs:274) or to a panic: what it does to the
\* fields of the streaming pipeline
UpdateApp(new_key, new_input, pressed_enter) ==
    /\ ui_pc = "frame"
    /\ ~crashed
    /\ new_key.some => new_key.v /= api_key
    /\ new_input.some => new_input.v /= input
    /\ pressed_enter => Len(tasks) < MaxSends
    /\ PollPanics => ~new_key.some /\ ~new_input.some /\ ~pressed_enter
    /\ LET app == IF PollPanics THEN AssignedDelta(AppState, PolledDelta)
                  ELSE AfterInput(new_key, new_input)
           sends == /\ ~PollPanics
                    /\ ShouldSendMessage(app, pressed_enter)
                    /\ ~ReturnsEarly(app)
       IN  /\ SetApp(IF sends /\ ~app.client.some THEN NotConfigured(app)
                     ELSE app)
           /\ IF sends /\ app.client.some
              THEN /\ ui_pc' = "validating"
                   /\ should_send_input' = new_input.some
                   /\ crashed' = FALSE
              ELSE /\ ui_pc' = "frame"
                   /\ should_send_input' = FALSE
                   /\ crashed' = (PollPanics \/ SendInputPanics(new_input.some))
    /\ cost_added' = IF Polled /\ AddsCost(AppState, PolledDelta) /\ ~PollPanics
                     THEN Append(cost_added,
                                 UsageAsCost(pricing_data, PolledDelta.usage))
                     ELSE cost_added
    /\ UNCHANGED pricing_data
    /\ channels' = IF Polled
                   THEN [channels EXCEPT ![stream_receiver] =
                            Without(@, RecvIndex(@))]
                   ELSE channels
    /\ received' = IF Polled
                   THEN Append(received, [chan |-> stream_receiver,
                                          delta |-> PolledDelta])
                   ELSE received
    /\ last_enter' = pressed_enter
    /\ UNCHANGED <<input_sender, tasks, yielded, failures, pushed>>
    /\ UNCHANGED <<streamVars, callVars>>

\* the frame as the streaming pipeline sees it: the save of a changed key
\* succeeds (app.rs:380), no other setting is touched, and the estimator
\* thread, which never feeds back into the fields above, is left where it
\* is
Update(new_key, new_input, pressed_enter) ==
    /\ UpdateApp(new_key, new_input, pressed_enter)
    /\ persisted' = IF new_key.some
                    THEN Document(new_key.v, theme, font_size)
                    ELSE persisted
    /\ UNCHANGED <<theme, font_size, dragging>>
    /\ UNCHANGED estimatorVars

\* the placeholder created with a text to show while waiting: a plausible
\* slip
OpenPlaceholderDots == Message("Assistant", <<"...">>)

\* app.rs:310-313
OpenPlaceholder == Message("Assistant", <<>>)

\* the conversation cloned after the placeholder has been pushed: a
\* plausible slip
NewTaskAfterPlaceholder(request) ==
    [pc |-> "open", content_delta |-> DefaultDelta, lines_read |-> 0,
     messages |-> Append(request, OpenPlaceholder)]

\* app.rs:304, app.rs:315-316: the spawned task before its first await,
\* holding the conversation cloned for the request
NewTask(request) ==
    [pc |-> "open", content_delta |-> DefaultDelta, lines_read |-> 0,
     messages |-> request]

\* app.rs:346: the task has returned and its locals are dropped
FinishedTask ==
    [pc |-> "done", content_delta |-> DefaultDelta, lines_read |-> 0,
     messages |-> <<>>]

\* app.rs:307: assigning stream_receiver drops the receiver it held, and
\* with it the deltas still queued in that channel
DropReceivers(chans) == [i \in 1..Len(chans) |-> <<>>]

\* the histories of the earlier sends are forgotten
Forget(h) == [i \in 1..Len(h) |-> <<>>]

\* send_message from the return of block_on (app.rs:274-346), then the rest
\* of the frame (app.rs:455-457): what it does to the fields of the
\* streaming pipeline
ValidationDoneApp(result) ==
    /\ ui_pc = "validating"
    /\ ~crashed
    /\ IF result /= "ok_true"
       THEN /\ client' = NoClient
            /\ error' = SomeText(BadKeyText)
            /\ UNCHANGED <<input, messages, is_sending, api_key,
                           stream_receiver, taskVars, received, cost_added>>
       ELSE LET request == Append(messages, Message("User", input))
            IN  /\ messages' = Append(request, OpenPlaceholder)
                /\ error' = NoText
                /\ input' = <<>>
                /\ is_sending' = TRUE
                /\ channels' = Append(DropReceivers(channels), <<>>)
                /\ stream_receiver' = Len(channels) + 1
                /\ tasks' = Append(tasks, NewTask(request))
                /\ yielded' = Append(Forget(yielded), <<>>)
                /\ failures' = Append(Forget(failures), <<>>)
                /\ pushed' = Append(Forget(pushed), <<>>)
                /\ received' = <<>>
                /\ cost_added' = <<>>
                /\ UNCHANGED <<api_key, client>>
    /\ ui_pc' = "frame"
    /\ should_send_input' = FALSE
    /\ crashed' = SendInputPanics(should_send_input)
    /\ UNCHANGED <<input_sender, last_enter, pricing_data>>
    /\ UNCHANGED <<streamVars, configVars, callVars>>

\* the same step as the streaming pipeline sees it
ValidationDone(result) ==
    /\ ValidationDoneApp(result)
    /\ UNCHANGED estimatorVars

\* ------------------------------------------------------------------------
\* The background tasks
\* ------------------------------------------------------------------------

Running(i) == i \in 1..Len(tasks) /\ ~crashed

\* app.rs:318, Ok: send_message_streaming returned a stream
OpenOk(i) ==
    /\ Running(i)
    /\ tasks[i].pc = "open"
    /\ tasks' = [tasks EXCEPT ![i].pc = "next"]
    /\ UNCHANGED <<appVars, input_sender, ui_pc, should_send_input, crashed,
                   channels, yielded, failures, pushed, received, last_enter>>
    /\ UNCHANGED <<costVars, streamVars, estimatorVars, configVars, callVars>>

\* app.rs:340-343: send_message_streaming returned Err(e)
OpenFails(i, e) ==
    /\ Running(i)
    /\ tasks[i].pc = "open"
    /\ tasks' = [tasks EXCEPT ![i].pc = "send_err",
                              ![i].content_delta = ErrDelta(@, e)]
    /\ failures' = [failures EXCEPT ![i] = Append(@, e)]
    /\ UNCHANGED <<appVars, input_sender, ui_pc, should_send_input, crashed,
                   channels, yielded, pushed, received, last_enter>>
    /\ UNCHANGED <<costVars, streamVars, estimatorVars, configVars, callVars>>

\* app.rs:320-337: stream.next() reads one more line of the body
StreamNext(i, line) ==
    /\ Running(i)
    /\ tasks[i].pc = "next"
    /\ tasks[i].lines_read < MaxLines
    /\ LET item == EventStreamItem(line)
           t == [tasks[i] EXCEPT !.lines_read = @ + 1]
       IN  /\ tasks' = [tasks EXCEPT ![i] =
                 IF item.kind = "Ok"
                 THEN [t EXCEPT !.pc = "send_ok",
                                !.content_delta = OkDelta(@, item)]
                 ELSE IF item.kind = "Err"
                 THEN [t EXCEPT !.pc = "send_err",
                                !.content_delta = ErrDelta(@, item.error)]
                 ELSE t]
           /\ yielded' = [yielded EXCEPT ![i] =
                 IF item.kind = "None" THEN @ ELSE Append(@, item)]
           /\ failures' = [failures EXCEPT ![i] =
                 IF item.kind = "Err" THEN Append(@, item.error) ELSE @]
    /\ UNCHANGED <<appVars, input_sender, ui_pc, should_send_input, crashed,
                   channels, pushed, received, last_enter>>
    /\ UNCHANGED <<costVars, streamVars, estimatorVars, configVars, callVars>>

\* app.rs:320: stream.next() returns None, the body has ended
StreamEnd(i) ==
    /\ Running(i)
    /\ tasks[i].pc = "next"
    /\ tasks' = [tasks EXCEPT ![i] = FinishedTask]
    /\ UNCHANGED <<appVars, input_sender, ui_pc, should_send_input, crashed,
                   channels, yielded, failures, pushed, received, last_enter>>
    /\ UNCHANGED <<costVars, streamVars, estimatorVars, configVars, callVars>>

\* app.rs:326, 334, 343: tx.send(content_delta).await, which waits while
\* the channel is full and fails (ignored) once the receiver is dropped
ChannelSend(i) ==
    /\ Running(i)
    /\ tasks[i].pc \in {"send_ok", "send_err"}
    /\ IF stream_receiver = i
       THEN /\ Len(channels[i]) < ChannelCapacity
            /\ channels' = [channels EXCEPT ![i] =
                                Append(@, tasks[i].content_delta)]
            /\ pushed' = [pushed EXCEPT ![i] =
                                Append(@, tasks[i].content_delta)]
       ELSE UNCHANGED <<channels, pushed>>
    /\ tasks' = [tasks EXCEPT ![i] =
                    IF tasks[i].pc = "send_err"
                       \/ BreaksAfterSend(tasks[i].content_delta)
                    THEN FinishedTask ELSE [@ EXCEPT !.pc = "next"]]
    /\ UNCHANGED <<appVars, input_sender, ui_pc, should_send_input, crashed,
                   yielded, failures, received, last_enter>>
    /\ UNCHANGED <<costVars, streamVars, estimatorVars, configVars, callVars>>

\* ------------------------------------------------------------------------
\* Specification
\* ------------------------------------------------------------------------

\* one frame; the keyboard events of a frame go to the one widget that has
\* the focus, the key field of the settings panel or the input field
Frame ==
    \E k \in KeyEvents, t \in InputEvents, e \in BOOLEAN :
        /\ k.some => (~t.some /\ ~e)
        /\ Update(k, t, e)

Next ==
    \/ AppInit
    \/ Frame
    \/ \E r \in ValidationResults : ValidationDone(r)
    \/ \E i \in 1..MaxSends : OpenOk(i)
    \/ \E i \in 1..MaxSends, e \in OpenErrors : OpenFails(i, e)
    \/ \E i \in 1..MaxSends, line \in Lines : StreamNext(i, line)
    \/ \E i \in 1..MaxSends : StreamEnd(i)
    \/ \E i \in 1..MaxSends : ChannelSend(i)

Spec == Init /\ [][Next]_vars

\* the render loop keeps running frames, every request and every read of the
\* body returns (the clients have timeouts, api.rs:177 and api.rs:192), and
\* the executor keeps polling a task that can proceed
FairSpec ==
    /\ Spec
    /\ WF_vars(Update(Nothing, Nothing, FALSE))
    /\ WF_vars(\E r \in ValidationResults : ValidationDone(r))
    /\ \A i \in 1..MaxSends :
          /\ WF_vars(OpenOk(i) \/ \E e \in OpenErrors : OpenFails(i, e))
          /\ WF_vars(StreamEnd(i) \/ \E line \in Lines : StreamNext(i, line))
          /\ WF_vars(ChannelSend(i))

\* ------------------------------------------------------------------------
\* The sequence returned by send_message_streaming, polled on its own
\* ------------------------------------------------------------------------

\* api.rs:298-341: the sequence is polled, filter_map reads one more line
\* of the body and applies the closure to it; an element is handed to a
\* consumer that runs the loop of app.rs:320-337 and, whether or not that
\* loop has been left, the sequence can be polled again
PollLine(line) ==
    /\ ~stream_ended
    /\ Len(stream_lines) < MaxBody
    /\ stream_lines' = Append(stream_lines, line)
    /\ LET item == EventStreamItem(line)
       IN  /\ stream_items' = IF item.kind = "None" THEN stream_items
                              ELSE Append(stream_items, item)
           /\ aggregator' = AggregatorStep(aggregator, item)
    /\ UNCHANGED <<programVars, stream_ended>>

\* api.rs:298: the body has ended, LinesStream and with it the sequence
\* return None
BodyEnds ==
    /\ ~stream_ended
    /\ stream_ended' = TRUE
    /\ UNCHANGED <<programVars, stream_lines, stream_items, aggregator>>

EventStream ==
    \/ \E line \in Lines : PollLine(line)
    \/ BodyEnds

\* the program before its first frame, and the sequence of one response
StreamInit == Init /\ api_key = <<"k">> /\ pricing_data = NoPricing

StreamSpec == StreamInit /\ [][EventStream]_vars

\* ------------------------------------------------------------------------
\* Properties
\* ------------------------------------------------------------------------

Last(q) == q[Len(q)]

\* the concatenation of the contents of the first k items
RECURSIVE ConcatContents(_, _)
ConcatContents(items, k) ==
    IF k = 0 THEN <<>>
    ELSE ConcatContents(items, k - 1) \o items[k].content

\* the deltas received from channel i, in the order of their reception
ReceivedFrom(i) ==
    LET FromI(r) == r.chan = i
        sel == SelectSeq(received, FromI)
    IN  [k \in 1..Len(sel) |-> sel[k].delta]

OnlyWhitespace(s) == \A k \in 1..Len(s) : s[k] \in {" ", "\t", "\n"}

HasSentinel(content) ==
    /\ Len(content) >= 6
    /\ SubSeq(content, 1, 6) = <<"E", "r", "r", "N", "r", ":">>

\* C1: a task that met no failure has pushed, for the items t1..tk it was
\* given, deltas whose contents are t1, t1+t2, ..., each complete exactly
\* when its item is the completion marker; it pushes one delta per item (the
\* newest item may still wait for room in the channel), and a complete delta
\* is the last one it pushes.
C1_PrefixSums ==
    \A i \in 1..Len(tasks) :
        failures[i] = <<>> =>
            /\ Len(pushed[i]) =
                  Len(yielded[i]) - (IF tasks[i].pc = "send_ok" THEN 1 ELSE 0)
            /\ \A k \in 1..Len(pushed[i]) :
                  /\ pushed[i][k].content = ConcatContents(yielded[i], k)
                  /\ pushed[i][k].is_complete = yielded[i][k].is_complete
                  /\ pushed[i][k].is_complete =>
                        k = Len(pushed[i]) /\ tasks[i].pc = "done"

\* two different increments, then the completion marker, all pushed
C1_Witness ==
    \E i \in 1..Len(tasks) :
        /\ tasks[i].pc = "done"
        /\ failures[i] = <<>>
        /\ Len(pushed[i]) = 3
        /\ yielded[i][1].content /= yielded[i][2].content
        /\ yielded[i][1].content /= <<>>
        /\ yielded[i][2].content /= <<>>
        /\ pushed[i][3].is_complete

\* C2: a task pushes at most one complete delta and nothing after it.
C2_AtMostOneComplete ==
    \A i \in 1..Len(tasks) :
        /\ Cardinality({k \in 1..Len(pushed[i]) : pushed[i][k].is_complete}) <= 1
        /\ \A k \in 1..Len(pushed[i]) :
              pushed[i][k].is_complete => k = Len(pushed[i])

\* a task has stopped after pushing a complete delta that followed text
C2_Witness ==
    \E i \in 1..Len(tasks) :
        /\ tasks[i].pc = "done"
        /\ Len(pushed[i]) >= 2
        /\ Last(pushed[i]).is_complete

\* C3: every accepted send ends: while the render loop runs, is_sending
\* does not stay true for ever.
C3_SendTerminates == (is_sending /\ ~crashed) ~> ~is_sending

\* C4: a frame in which Enter is pressed while is_sending is true or the
\* input is blank ends with the application fields as the earlier parts of
\* the frame left them, with no validation request and no new task.
C4_RejectedSendIsNoOp ==
    [][\A k \in KeyEvents, t \in InputEvents :
          LET app == AfterInput(k, t)
          IN  (Update(k, t, TRUE) /\ (OnlyWhitespace(app.input) \/ app.is_sending))
              => /\ input' = app.input
                 /\ messages' = app.messages
                 /\ is_sending' = app.is_sending
                 /\ error' = app.error
                 /\ client' = app.client
                 /\ stream_receiver' = app.stream_receiver
                 /\ ui_pc' = "frame"
                 /\ tasks' = tasks]_vars

\* Enter was pressed in the latest frame, with a question typed, a client
\* configured and a send in progress
C4_Witness ==
    /\ last_enter
    /\ ui_pc = "frame"
    /\ is_sending
    /\ input = <<"q">>
    /\ client.some
    /\ Len(tasks) < MaxSends

\* C5: a task is spawned only when every earlier task has pushed its
\* terminal delta and stopped, and at most one task has not stopped.
C5_OneLiveTask ==
    [][/\ Len(tasks') > Len(tasks) =>
             \A i \in 1..Len(tasks) :
                 /\ tasks[i].pc = "done"
                 /\ i = Len(tasks) =>
                        Len(pushed[i]) > 0 /\ Last(pushed[i]).is_complete
       /\ Cardinality({i \in 1..Len(tasks') : tasks'[i].pc /= "done"}) <= 1]_vars

\* a second task is about to push
C5_Witness ==
    /\ Len(tasks) = 2
    /\ tasks[2].pc = "send_ok"

\* C6: the render thread is never suspended waiting for an HTTP response.
C6_RenderNeverBlocks == ui_pc /= "validating"

\* C7: while is_sending is true the conversation ends with an Assistant
\* message, and a step taken while is_sending is true changes neither the
\* number of messages nor any message but the last.
C7_OnlyOpenMessageChanges ==
    [][/\ is_sending' => Last(messages').role = "Assistant"
       /\ is_sending =>
            /\ Len(messages') = Len(messages)
            /\ \A k \in 1..(Len(messages) - 1) : messages'[k] = messages[k]
            /\ Last(messages').role = "Assistant"]_vars

\* during a second send the open message has received text
C7_Witness ==
    /\ is_sending
    /\ Len(messages) = 5
    /\ Last(messages).content /= <<>>

\* C8: a task that met a failure met exactly one; once it has stopped, the
\* last delta it pushed begins with the sentinel and is complete, and it is
\* the only complete delta; before that push no pushed delta is complete.
C8_FailureIsOneTerminalDelta ==
    \A i \in 1..Len(tasks) :
        failures[i] /= <<>> =>
            /\ Len(failures[i]) = 1
            /\ tasks[i].pc \in {"send_err", "done"}
            /\ tasks[i].pc = "send_err" =>
                  \A k \in 1..Len(pushed[i]) : ~pushed[i][k].is_complete
            /\ tasks[i].pc = "done" =>
                  /\ Len(pushed[i]) > 0
                  /\ HasSentinel(Last(pushed[i]).content)
                  /\ Last(pushed[i]).is_complete
                  /\ \A k \in 1..(Len(pushed[i]) - 1) :
                        ~pushed[i][k].is_complete

\* a task has stopped on an error that came after text
C8_Witness ==
    \E i \in 1..Len(tasks) :
        /\ failures[i] /= <<>>
        /\ tasks[i].pc = "done"
        /\ Len(pushed[i]) >= 2

\* C9 as stated: every received delta's content becomes the content of the
\* open assistant message, and a complete delta clears is_sending.
C9_EveryDeltaReplacesContent ==
    [][Len(received') > Len(received) =>
          LET d == Last(received').delta
          IN  /\ messages' = [messages EXCEPT ![Len(messages)].content = d.content]
              /\ d.is_complete => ~is_sending']_vars

\* C9 amended: a received delta whose content does not begin with the
\* sentinel becomes the content of the open assistant message; one that
\* does leaves the messages alone and, in a frame without user action, is
\* stored in error; a complete delta of either kind clears is_sending.
C9_DeltaReplacesContentOrSetsError ==
    [][Len(received') > Len(received) =>
          LET d == Last(received').delta
          IN  /\ ~HasSentinel(d.content) =>
                    messages' = [messages EXCEPT ![Len(messages)].content = d.content]
              /\ HasSentinel(d.content) =>
                    /\ messages' = messages
                    /\ Update(Nothing, Nothing, FALSE) =>
                          error' = SomeText(d.content)
              /\ d.is_complete => ~is_sending']_vars

\* the terminal delta of a failed send has been handled after text had
\* been shown
C9_Witness ==
    /\ ~is_sending
    /\ Len(received) >= 2
    /\ Last(received).delta.is_complete
    /\ HasSentinel(Last(received).delta.content)
    /\ error = SomeText(Last(received).delta.content)
    /\ Last(messages).content = received[Len(received) - 1].delta.content
    /\ Last(messages).content /= <<>>

\* C10: the deltas received from a channel are, in order, the first deltas
\* pushed into it.
C10_ReceivedInPushOrder ==
    \A i \in 1..Len(tasks) :
        /\ Len(ReceivedFrom(i)) <= Len(pushed[i])
        /\ \A k \in 1..Len(ReceivedFrom(i)) : ReceivedFrom(i)[k] = pushed[i][k]

\* a delta has been received while two younger ones were queued
C10_Witness ==
    \E i \in 1..Len(tasks) :
        /\ Len(ReceivedFrom(i)) >= 1
        /\ Len(channels[i]) = 2
        /\ channels[i][1] /= channels[i][2]

\* C11: during a send that met no failure, the content of the open
\* assistant message after every step is a prefix sum of the increments
\* the task was given (or empty), is never shorter than before the step,
\* and is the sum of all of them after the step that clears is_sending.
C11_ContentFollowsPrefixSums ==
    [][\A i \in 1..Len(tasks) :
          (/\ i = stream_receiver
           /\ is_sending
           /\ Len(tasks') = Len(tasks)
           /\ failures'[i] = <<>>)
          => /\ \E k \in 0..Len(yielded'[i]) :
                   Last(messages').content = ConcatContents(yielded'[i], k)
             /\ Len(Last(messages').content) >= Len(Last(messages).content)
             /\ ~is_sending' =>
                   Last(messages').content =
                       ConcatContents(yielded'[i], Len(yielded'[i]))]_vars

\* C12: a step that spawns a task is taken with a non-blank input, with
\* is_sending false and with a client; it appends a User message holding
\* the input and then an Assistant message with empty content, leaves the
\* earlier messages as they were, empties the input, sets is_sending and
\* clears error.
C12_AcceptedSendAppendsTwo ==
    [][Len(tasks') > Len(tasks) =>
          /\ ~OnlyWhitespace(input) /\ ~is_sending /\ client.some
          /\ Len(messages') = Len(messages) + 2
          /\ SubSeq(messages', 1, Len(messages)) = messages
          /\ messages'[Len(messages) + 1] = [role |-> "User", content |-> input]
          /\ messages'[Len(messages) + 2] = [role |-> "Assistant", content |-> <<>>]
          /\ input' = <<>>
          /\ is_sending'
          /\ ~error'.some]_vars

\* a second send has just been accepted, after a first one that failed
C12_Witness ==
    /\ Len(tasks) = 2
    /\ tasks[2].pc = "open"
    /\ Len(messages) = 5
    /\ messages[4] = [role |-> "User", content |-> <<"q">>]
    /\ messages[5].content = <<>>
    /\ messages[3].content /= <<>>
    /\ is_sending
    /\ ~error.some

\* C13: is_api_key_valid returns Ok(false) for every status that is not a
\* success; and when the validation answers with such a status or fails in
\* transport, the step that ends it sets client to None and sets error,
\* leaves messages, input and is_sending (false) as they were, spawns no
\* task, and the frame ends without a panic unless the input change of that
\* same frame is handed to a missing estimator channel.
C13_BadKeyAbandonsSend ==
    [][\A r \in ValidationResponses :
          (r.kind = "transport_error" \/ r.status \notin 200..299) =>
             /\ r.kind = "status" => IsApiKeyValid(r) = "ok_false"
             /\ ValidationDone(IsApiKeyValid(r)) =>
                   /\ ~client'.some
                   /\ error'.some
                   /\ messages' = messages
                   /\ input' = input
                   /\ ~is_sending /\ ~is_sending'
                   /\ tasks' = tasks
                   /\ stream_receiver' = stream_receiver
                   /\ ui_pc' = "frame"
                   /\ (~should_send_input \/ input_sender) => ~crashed']_vars

\* the validation has just refused a send: the key is still configured,
\* the client is gone, the question is still in the input field
C13_Witness ==
    /\ ui_pc = "frame"
    /\ last_enter
    /\ ~crashed
    /\ error = [some |-> TRUE, v |-> <<"Bad API key, request process canceled">>]
    /\ ~client.some
    /\ api_key = <<"k">>
    /\ input = <<"q">>
    /\ ~is_sending
    /\ Len(tasks) = 1

\* C14: when a task reads a line that could not be read, or a data: line
\* whose payload is not JSON or lacks a required field of its event type,
\* the stream yields an error element for it: the task records a failure
\* and goes on to push its terminal error delta.
C14_BadLineYieldsError ==
    [][\A i \in 1..Len(tasks), line \in Lines :
          (/\ StreamNext(i, line)
           /\ \/ line.prefix = "read_error"
              \/ line.prefix = "data" /\ line.type \in {"not_json", "missing_field"})
          => /\ Len(failures'[i]) = Len(failures[i]) + 1
             /\ tasks'[i].pc = "send_err"
             /\ HasSentinel(tasks'[i].content_delta.content)
             /\ tasks'[i].content_delta.is_complete]_vars

\* C15: polling a data: line whose event type is no StreamEvent variant
\* produces no element and no error element, does not end the sequence,
\* and leaves the loop that consumes the sequence exactly as it was, so
\* that what it pushes for the rest of the body is what it would push had
\* the line been absent.
C15_UnknownEventIsSkipped ==
    [][\A line \in Lines :
          (PollLine(line) /\ line.prefix = "data" /\ line.type = "unknown_type")
          => /\ stream_items' = stream_items
             /\ aggregator' = aggregator
             /\ ~stream_ended']_vars

\* an unknown event came first, then text and the completion marker, and
\* the loop has pushed the text and the complete delta
C15_Witness ==
    /\ Len(stream_lines) = 3
    /\ stream_lines[1].type = "unknown_type"
    /\ Len(stream_items) = 2
    /\ Len(aggregator.pushed) = 2
    /\ aggregator.pushed[1].content = <<"a">>
    /\ aggregator.pushed[2].is_complete
    /\ aggregator.pushed[2].content = <<"a">>

\* C16: polling a blank line, an event: line, a data: line carrying ping,
\* message_start, content_block_start, content_block_stop, message_delta
\* or an in-stream error event, or a content_block_delta whose delta type
\* is not text_delta, produces no element; the loop that consumes the
\* sequence pushes nothing for it and keeps its accumulator.
C16_NonTextLinesYieldNothing ==
    [][\A line \in Lines :
          (/\ PollLine(line)
           /\ \/ line.prefix \in {"blank", "event"}
              \/ /\ line.prefix = "data"
                 /\ line.type \in {"ping", "message_start", "content_block_start",
                                   "content_block_stop", "message_delta", "error"}
              \/ /\ line.prefix = "data"
                 /\ line.type = "content_block_delta"
                 /\ line.delta_type /= "text_delta")
          => /\ stream_items' = stream_items
             /\ aggregator'.pushed = aggregator.pushed
             /\ aggregator'.content_delta = aggregator.content_delta]_vars

\* text, then a content_block_delta that is not text, then text again: two
\* elements, and the second delta pushed holds both texts
C16_Witness ==
    /\ Len(stream_lines) = 3
    /\ stream_lines[2].type = "content_block_delta"
    /\ stream_lines[2].delta_type = "input_json_delta"
    /\ Len(stream_items) = 2
    /\ Len(aggregator.pushed) = 2
    /\ aggregator.pushed[2].content = <<"a", "a">>

\* C17 as stated: a message_stop line yields one element with empty
\* content and is_complete = true, and once the sequence has produced a
\* complete element it produces no further element, whatever lines follow.
C17_SequenceEndsAtStop ==
    [][\A line \in Lines :
          PollLine(line) =>
             /\ (line.prefix = "data" /\ line.type = "message_stop") =>
                   /\ Len(stream_items') = Len(stream_items) + 1
                   /\ Last(stream_items').content = <<>>
                   /\ Last(stream_items').is_complete
             /\ (\E k \in 1..Len(stream_items) : stream_items[k].is_complete)
                   => stream_items' = stream_items]_vars

\* C17 amended: a message_stop line yields exactly one element, with empty
\* content and is_complete = true; the sequence does not end with it, and a
\* text line polled after it still yields its element; the loop that
\* consumes the sequence pushes nothing once it has pushed a complete
\* delta.
C17_StopYieldsCompleteElement ==
    [][\A line \in Lines :
          PollLine(line) =>
             /\ (line.prefix = "data" /\ line.type = "message_stop") =>
                   /\ Len(stream_items') = Len(stream_items) + 1
                   /\ Last(stream_items').kind = "Ok"
                   /\ Last(stream_items').content = <<>>
                   /\ Last(stream_items').is_complete
             /\ ~stream_ended'
             /\ (/\ line.prefix = "data"
                 /\ line.type = "content_block_delta"
                 /\ line.delta_type = "text_delta") =>
                   /\ Len(stream_items') = Len(stream_items) + 1
                   /\ Last(stream_items').content = line.text
                   /\ ~Last(stream_items').is_complete
             /\ (/\ Len(aggregator.pushed) > 0
                 /\ Last(aggregator.pushed).is_complete) =>
                   aggregator'.pushed = aggregator.pushed]_vars

\* text, the completion marker, then text again: the sequence has produced
\* an element after the complete one, the loop has pushed two deltas only
C17_Witness ==
    /\ Len(stream_items) = 3
    /\ stream_items[2].is_complete
    /\ stream_items[2].content = <<>>
    /\ stream_items[3].content = <<"a">>
    /\ ~stream_ended
    /\ Len(aggregator.pushed) = 2
    /\ Last(aggregator.pushed).is_complete
    /\ Last(aggregator.pushed).content = stream_items[1].content

AfterFailedSend ==
    /\ Len(tasks) >= 1
    /\ failures[Len(tasks)] /= <<>>
    /\ received /= <<>>
    /\ Last(received).delta.is_complete

\* C19: the step that receives the terminal delta of a failed send clears
\* is_sending and, in a frame without key change or send, leaves the
\* sentinel-prefixed error text in error; from then on a frame in which
\* Enter is pressed with a non-blank input and a client starts the key
\* validation, and a validation answered with a success status spawns the
\* task of a new send.
C19_UsableAfterFailedSend ==
    [][/\ (/\ Len(received') > Len(received)
           /\ Last(received').delta.is_complete
           /\ failures[Last(received').chan] /= <<>>)
          => /\ ~is_sending'
             /\ HasSentinel(Last(received').delta.content)
             /\ \A t \in InputEvents :
                   Update(Nothing, t, FALSE) =>
                      error' = [some |-> TRUE, v |-> Last(received').delta.content]
       /\ \A k \in KeyEvents, t \in InputEvents :
             LET app == AfterInput(k, t)
             IN  (/\ AfterFailedSend
                  /\ Update(k, t, TRUE)
                  /\ ~OnlyWhitespace(app.input)
                  /\ app.client.some)
                 => ui_pc' = "validating"
       /\ \A r \in ValidationResponses :
             (/\ AfterFailedSend
              /\ r.kind = "status" /\ r.status \in 200..299
              /\ ValidationDone(IsApiKeyValid(r)))
             => /\ Len(tasks') = Len(tasks) + 1
                /\ is_sending'
                /\ ~error'.some
                /\ Last(messages') = [role |-> "Assistant", content |-> <<>>]]_vars

\* a send failed with an API error, its error text is on display, and the
\* key validation of the next send is under way; its success spawns the
\* second task
C19_Witness ==
    /\ AfterFailedSend
    /\ ~is_sending
    /\ ~crashed
    /\ error = [some |-> TRUE, v |-> Last(received).delta.content]
    /\ \E k \in 1..Len(error.v) : error.v[k] = "API error ("
    /\ ui_pc = "validating"
    /\ Len(tasks) = 1
    /\ ENABLED (ValidationDone("ok_true") /\ Len(tasks') = 2 /\ is_sending')

C21_SendingNeedsNoPricing ==
    [][/\ AppInit => ~crashed'
       /\ ValidationDone("ok_true") => Len(tasks') = Len(tasks) + 1
       /\ (Update(Nothing, Nothing, FALSE) /\ Polled) =>
             /\ ~crashed'
             /\ PolledDelta.is_complete => ~is_sending']_vars

\* ------------------------------------------------------------------------
\* The estimator thread
\* ------------------------------------------------------------------------

\* texts, submitted and not yet received by the estimator thread, that are
\* explored; the channel of app.rs:136 itself is unbounded
MaxQueue == 2

\* pairs of characters that the vocabulary of the tokenizer holds as one
\* token
MergedPairs == {<<" ", "q">>}

\* app.rs:234-241: bpe.encode_ordinary(content).len(), the number of tokens
\* the text is split into
RECURSIVE TokenCountHeuristic(_)
TokenCountHeuristic(content) ==
    IF content = <<>> THEN 0
    ELSE IF Len(content) >= 2 /\ SubSeq(content, 1, 2) \in MergedPairs
    THEN 1 + TokenCountHeuristic(SubSeq(content, 3, Len(content)))
    ELSE 1 + TokenCountHeuristic(Tail(content))

\* app.rs:243-255, in millionths of a dollar:
\* cost_per_million * (token_count / 1000000)
GetTokensHeurPrice(content, toktype, model_price) ==
    IF toktype = "InputToken"
    THEN model_price.input_cost_per_million * TokenCountHeuristic(content)
    ELSE model_price.output_cost_per_million * TokenCountHeuristic(content)

\* the first estimate is kept and later ones are dropped: a plausible slip
WriteSlotOnce(slot, cost) == IF slot.some THEN slot ELSE SomeCost(cost)

\* app.rs:163-164: *input_cost = Some(Ok(_input_cost))
WriteSlot(slot, cost) == SomeCost(cost)

\* the slot emptied by the read, as Option::take would: a plausible slip
TakeSlot(slot) == NoCost

\* app.rs:404: the slot is read through a shared reference and stays as
\* it is
SlotAfterRead(slot) == slot

\* app.rs:404-406: the estimate shown after the read of the slot
DisplayAfterRead(display, slot) == IF slot.some THEN slot ELSE display

\* the thread runs, once init has started it, as long as the process does
EstimatorRuns == input_sender /\ ~crashed

\* app.rs:155: recv returns the oldest text of the channel
EstimatorRecv ==
    /\ EstimatorRuns
    /\ estimator.pc = "recv"
    /\ input_channel /= <<>>
    /\ estimator' = [estimator EXCEPT !.pc = "compute",
                                      !.input = Head(input_channel)]
    /\ input_channel' = Tail(input_channel)
    /\ UNCHANGED <<input_cost, input_cost_display, sent_input>>
    /\ UNCHANGED <<appVars, input_sender, ui_pc, should_send_input, crashed,
                   taskVars, received, last_enter, costVars>>
    /\ UNCHANGED <<streamVars, configVars, callVars>>

\* app.rs:157-161: the estimate is computed with the price init cloned
\* from pricing_data, before the mutex is touched
EstimatorCompute ==
    /\ EstimatorRuns
    /\ estimator.pc = "compute"
    /\ estimator' = [estimator EXCEPT
           !.pc = "lock",
           !.cost = GetTokensHeurPrice(estimator.input, "InputToken",
                                       pricing_data)]
    /\ UNCHANGED <<input_channel, input_cost, input_cost_display, sent_input>>
    /\ UNCHANGED <<appVars, input_sender, ui_pc, should_send_input, crashed,
                   taskVars, received, last_enter, costVars>>
    /\ UNCHANGED <<streamVars, configVars, callVars>>

\* app.rs:163: the mutex is acquired; the render thread holds it only
\* inside a frame, so between two frames it is free
EstimatorLock ==
    /\ EstimatorRuns
    /\ estimator.pc = "lock"
    /\ estimator' = [estimator EXCEPT !.pc = "write"]
    /\ UNCHANGED <<input_channel, input_cost, input_cost_display, sent_input>>
    /\ UNCHANGED <<appVars, input_sender, ui_pc, should_send_input, crashed,
                   taskVars, received, last_enter, costVars>>
    /\ UNCHANGED <<streamVars, configVars, callVars>>

\* app.rs:164-165: the estimate is written and the guard is dropped
EstimatorWrite ==
    /\ EstimatorRuns
    /\ estimator.pc = "write"
    /\ input_cost' = WriteSlot(input_cost, estimator.cost)
    /\ estimator' = NewEstimator
    /\ UNCHANGED <<input_channel, input_cost_display, sent_input>>
    /\ UNCHANGED <<appVars, input_sender, ui_pc, should_send_input, crashed,
                   taskVars, received, last_enter, costVars>>
    /\ UNCHANGED <<streamVars, configVars, callVars>>

\* app.rs:111-118: send_input_required hands a copy of the input field to
\* the channel
SendInputRequired(should_send) ==
    IF should_send /\ input_sender
    THEN /\ input_channel' = Append(input_channel, input')
         /\ sent_input' = SomeText(input')
    ELSE UNCHANGED <<input_channel, sent_input>>

\* ClauChatApp::update (app.rs:393-460) with the estimate: the frame waits
\* for the mutex (app.rs:404), reads the slot, and at its end hands a
\* changed input to the estimator thread (app.rs:455-457) unless it is
\* suspended in send_message
EstimatorUpdate(new_input, pressed_enter) ==
    /\ estimator.pc /= "write"
    /\ new_input.some => Len(input_channel) < MaxQueue
    /\ UpdateApp(Nothing, new_input, pressed_enter)
    /\ input_cost' = SlotAfterRead(input_cost)
    /\ input_cost_display' = DisplayAfterRead(input_cost_display, input_cost)
    /\ SendInputRequired(new_input.some /\ ui_pc' = "frame")
    /\ UNCHANGED <<estimator, configVars>>

\* the rest of the frame after block_on has returned (app.rs:274-346,
\* app.rs:455-457)
EstimatorValidationDone(result) ==
    /\ ValidationDoneApp(result)
    /\ SendInputRequired(should_send_input)
    /\ UNCHANGED <<estimator, input_cost, input_cost_display>>

\* the line of a streaming body explored next to the estimator thread: the
\* end of the message, with its usage
EstimatorLines ==
    {WithUsage(Line("data", "message_stop", "", <<>>), SomeUsage)}

EstimatorNext ==
    \/ AppInit
    \/ \E t \in InputEvents, e \in BOOLEAN : EstimatorUpdate(t, e)
    \/ \E r \in ValidationResults : EstimatorValidationDone(r)
    \/ \E i \in 1..MaxSends : OpenOk(i)
    \/ \E i \in 1..MaxSends : OpenFails(i, TransportErrorText)
    \/ \E i \in 1..MaxSends, line \in EstimatorLines : StreamNext(i, line)
    \/ \E i \in 1..MaxSends : StreamEnd(i)
    \/ \E i \in 1..MaxSends : ChannelSend(i)
    \/ EstimatorRecv
    \/ EstimatorCompute
    \/ EstimatorLock
    \/ EstimatorWrite

\* the program with a key and with the price of its model
EstimatorInit ==
    Init /\ api_key = <<"k">> /\ pricing_data = SomePricing(TRUE, 3, 15)

EstimatorSpec == EstimatorInit /\ [][EstimatorNext]_vars

\* the estimator thread has received every submitted text and has written
\* the estimate of the last one it received
EstimatorIdle == input_channel = <<>> /\ estimator.pc = "recv"

TaskStep(i) ==
    /\ Len(tasks') = Len(tasks)
    /\ i \in 1..Len(tasks)
    /\ tasks'[i] /= tasks[i]

\* a step of the estimator thread: its position changes
EstimatorStep == estimator' /= estimator

\* C23: every step belongs to one domain. A step of a task changes, next
\* to its own locals, nothing but its own channel, to which it appends its
\* accumulator; a step of the estimator thread changes nothing but the slot
\* and its end of the input channel; messages, is_sending, error and the
\* total cost change only in steps of the render loop, and the slot only in
\* steps of the estimator thread.
C23_OneWriterPerState ==
    [][/\ \A i \in 1..Len(tasks) : TaskStep(i) =>
             /\ ~EstimatorStep
             /\ \A j \in 1..Len(tasks) : j /= i => ~TaskStep(j)
             /\ UNCHANGED <<appVars, input_sender, ui_pc, received,
                            last_enter, costVars, estimatorVars,
                            configVars>>
             /\ \A j \in 1..Len(channels) : j /= i =>
                    channels'[j] = channels[j]
             /\ \/ channels'[i] = channels[i]
                \/ channels'[i] = Append(channels[i], tasks[i].content_delta)
       /\ EstimatorStep =>
             /\ UNCHANGED <<appVars, input_sender, ui_pc, received,
                            last_enter, costVars, taskVars, configVars,
                            input_cost_display, sent_input>>
             /\ \/ input_channel' = input_channel
                \/ /\ input_channel /= <<>>
                   /\ input_channel' = Tail(input_channel)
       /\ input_cost' /= input_cost => EstimatorStep
       /\ (\/ messages' /= messages
           \/ is_sending' /= is_sending
           \/ error' /= error
           \/ cost_added' /= cost_added) =>
             /\ ~EstimatorStep
             /\ \A i \in 1..Len(tasks) : ~TaskStep(i)]_vars

\* the three domains have all written: a delta with usage has been handled
\* by the render loop, the task that sent it has finished, and the
\* estimator thread has written an estimate
C23_Witness ==
    /\ Len(cost_added) > 0
    /\ ~is_sending
    /\ Len(messages) = 3
    /\ input_cost.some
    /\ \E i \in 1..Len(tasks) : tasks[i] = FinishedTask /\ pushed[i] /= <<>>

\* ------------------------------------------------------------------------
\* Functions of api.rs and price.rs called on their own
\* ------------------------------------------------------------------------

\* content blocks in the body of one response
MaxBlocks == 3

\* the sequences over S of at most n elements
SeqsUpTo(S, n) == UNION {[1..k -> S] : k \in 0..n}

\* str::contains
Contains(text, piece) ==
    \E k \in 0..(Len(text) - Len(piece)) :
        SubSeq(text, k + 1, k + Len(piece)) = piece

\* Display of the error of response.text() and response.json()
\* (api.rs:236, api.rs:241, api.rs:288)
BodyErrorText == <<"error decoding response body">>

\* a content block of the body (api.rs:133-138); a block of the JSON may
\* lack the "text" member
ContentBlocks ==
    {[content_type |-> ty, text |-> tx] :
        ty \in {"text", "tool_use"},
        tx \in {NoText, SomeText(<<"a">>), SomeText(<<"b">>)}}

\* what the request of send_message or send_message_streaming meets: no
\* response, or a response with a status, whose body arrives or not
NoResponse ==
    [sent |-> FALSE, status |-> 0, readable |-> FALSE, body |-> <<>>,
     content |-> <<>>, usage |-> NoUsage]

\* a response that is not a success, with its body as text
ErrorResponse(status, readable, body) ==
    [sent |-> TRUE, status |-> status, readable |-> readable,
     body |-> IF readable THEN body ELSE <<>>,
     content |-> <<>>, usage |-> NoUsage]

\* a response to the messages request (api.rs:148-156) with its blocks
MessageResponse(readable, blocks) ==
    [sent |-> TRUE, status |-> 200, readable |-> readable, body |-> <<>>,
     content |-> IF readable THEN blocks ELSE <<>>,
     usage |-> IF readable THEN SomeUsage ELSE NoUsage]

ApiResponses ==
    {NoResponse}
    \cup {ErrorResponse(st, r, b) :
            st \in {304, 401, 429, 500}, r \in BOOLEAN,
            b \in {<<>>, RateLimitedBody}}
    \cup {MessageResponse(r, bs) :
            r \in BOOLEAN, bs \in SeqsUpTo(ContentBlocks, MaxBlocks)}

\* Result::Err(e) and Result::Ok(v)
Err(e) == [kind |-> "Err", error |-> e]
Ok(v) == [kind |-> "Ok", value |-> v]

\* api.rs:221-239, api.rs:276-291: the request and the check of the status
\* are the same in send_message and in send_message_streaming; "Ok" stands
\* for a response with a success status
CheckStatus(response) ==
    IF ~response.sent THEN Err(TransportErrorText)
    ELSE IF IsSuccess(response.status) THEN Ok(response)
    ELSE IF ~response.readable THEN Err(BodyErrorText)
    ELSE Err(ApiErrorText(response.status, response.body))

\* serde_json on the body (api.rs:241): every block needs its "text"
Deserializes(response) ==
    /\ response.readable
    /\ \A k \in 1..Len(response.content) : response.content[k].text.some

\* the text of every block, whatever its type: a plausible slip
RECURSIVE FullContentAnyType(_)
FullContentAnyType(blocks) ==
    IF blocks = <<>> THEN <<>>
    ELSE Head(blocks).text.v \o FullContentAnyType(Tail(blocks))

\* api.rs:244-249
RECURSIVE FullContent(_)
FullContent(blocks) ==
    IF blocks = <<>> THEN <<>>
    ELSE (IF Head(blocks).content_type = "text" THEN Head(blocks).text.v
          ELSE <<>>) \o FullContent(Tail(blocks))

\* AnthropicClient::send_message (api.rs:209-256)
SendMessage(response) ==
    IF CheckStatus(response).kind = "Err" THEN CheckStatus(response)
    ELSE IF ~Deserializes(response) THEN Err(BodyErrorText)
    ELSE Ok([content |-> FullContent(response.content),
             usage |-> response.usage])

\* AnthropicClient::send_message_streaming up to its return (api.rs:258-341):
\* an error, or the stream over the body
SendMessageStreaming(response) ==
    IF CheckStatus(response).kind = "Err" THEN CheckStatus(response)
    ELSE Ok([stream |-> TRUE])

\* the function called and its argument
Call(fn, arg) == [fn |-> fn, arg |-> arg]

ApiCalls ==
    {Call(fn, [response |-> r]) :
        fn \in {"send_message", "send_message_streaming"},
        r \in ApiResponses}

SendMessageReturns ==
    /\ call.fn = "send_message"
    /\ returned = NotReturned
    /\ returned' = SendMessage(call.arg.response)
    /\ UNCHANGED <<call, streamVars, appVars, input_sender, ui_pc,
                   should_send_input, crashed, taskVars, received,
                   last_enter, costVars, estimatorVars, configVars>>

SendMessageStreamingReturns ==
    /\ call.fn = "send_message_streaming"
    /\ returned = NotReturned
    /\ returned' = SendMessageStreaming(call.arg.response)
    /\ UNCHANGED <<call, streamVars, appVars, input_sender, ui_pc,
                   should_send_input, crashed, taskVars, received,
                   last_enter, costVars, estimatorVars, configVars>>


\* one of the two functions has returned from a response whose status is
\* not a success
ReturnedFromErrorStatus ==
    /\ call.fn \in {"send_message", "send_message_streaming"}
    /\ returned.kind /= "pending"
    /\ call.arg.response.sent
    /\ ~IsSuccess(call.arg.response.status)

\* C24 as stated: whenever the status of the response is not a success,
\* send_message and send_message_streaming return an error whose text
\* contains the status code and the body of the response.
C24_ErrorCarriesStatusAndBody ==
    ReturnedFromErrorStatus =>
        /\ returned.kind = "Err"
        /\ Contains(returned.error,
                    SubSeq(StatusDisplay(call.arg.response.status), 1, 1))
        /\ Contains(returned.error, call.arg.response.body)

\* C24: whenever the status of the response is not a success, send_message
\* and send_message_streaming return an error and no content; when the body
\* could be read the text of the error contains the status code and the
\* body (for status 429 and body {"error":"rate_limited"} it contains 429
\* and rate_limited), and when reading the body failed the error is that of
\* the read and carries no status code.
C24_ErrorCarriesStatusAndReadBody ==
    ReturnedFromErrorStatus =>
        LET response == call.arg.response
            code == SubSeq(StatusDisplay(response.status), 1, 1)
        IN  /\ returned.kind = "Err"
            /\ response.readable =>
                  /\ Contains(returned.error, code)
                  /\ Contains(returned.error, response.body)
                  /\ (response.status = 429 /\ response.body = RateLimitedBody)
                        => /\ Contains(returned.error, <<"429">>)
                           /\ Contains(returned.error, <<"rate_limited">>)
            /\ ~response.readable =>
                  /\ returned.error = BodyErrorText
                  /\ ~Contains(returned.error, code)

\* send_message_streaming has returned from the response of the example
C24_Witness ==
    /\ call = Call("send_message_streaming",
                   [response |-> ErrorResponse(429, TRUE, RateLimitedBody)])
    /\ returned.kind = "Err"
    /\ Len(returned.error) > Len(RateLimitedBody)

\* C25: when send_message returns a value, the status of the response was a
\* success and its body was deserialized; the content returned is the
\* concatenation, in the order of the response, of the text of the blocks
\* whose type is "text", the other blocks adding nothing, and the usage
\* returned is the usage of the response.
C25_ContentIsTextBlocksInOrder ==
    (call.fn = "send_message" /\ returned.kind = "Ok") =>
        LET response == call.arg.response
            IsTextBlock(b) == b.content_type = "text"
            texts == SelectSeq(response.content, IsTextBlock)
            items == [k \in 1..Len(texts) |-> [content |-> texts[k].text.v]]
        IN  /\ IsSuccess(response.status)
            /\ returned.value.content = ConcatContents(items, Len(items))
            /\ returned.value.usage = response.usage
            /\ response.usage.some

\* a text block, a block of another type and a second text block: the
\* content returned is the two texts, in their order
C25_Witness ==
    /\ call.fn = "send_message"
    /\ call.arg.response.content =
          <<[content_type |-> "text", text |-> SomeText(<<"b">>)],
            [content_type |-> "tool_use", text |-> SomeText(<<"b">>)],
            [content_type |-> "text", text |-> SomeText(<<"a">>)]>>
    /\ returned.kind = "Ok"
    /\ returned.value.content = <<"b", "a">>

\* ------------------------------------------------------------------------
\* price.rs: the token limits and the costs of a row
\* ------------------------------------------------------------------------

\* characters of a token limit that is explored
MaxLimitLen == 3

\* char::is_digit(10)
Digits == {"0", "1", "2", "3", "4", "5", "6", "7", "8", "9"}

DigitValue(c) ==
    CASE c = "0" -> 0 [] c = "1" -> 1 [] c = "2" -> 2 [] c = "3" -> 3
      [] c = "4" -> 4 [] c = "5" -> 5 [] c = "6" -> 6 [] c = "7" -> 7
      [] c = "8" -> 8 [] c = "9" -> 9

\* the digits of the token limits that are enumerated
LimitDigits == {"0", "1", "4"}

\* the number written by a sequence of digits
RECURSIVE DecimalValue(_)
DecimalValue(s) ==
    IF s = <<>> THEN 0
    ELSE 10 * DecimalValue(SubSeq(s, 1, Len(s) - 1)) + DigitValue(s[Len(s)])

RECURSIVE Pow10(_)
Pow10(d) == IF d = 0 THEN 1 ELSE 10 * Pow10(d - 1)

\* a text written as a sequence of characters
Chars(word) ==
    CASE word = "nan" -> <<"n", "a", "n">>
      [] word = "n/a" -> <<"n", "/", "a">>
      [] word = "unlimited" -> <<"u", "n", "l", "i", "m", "i", "t", "e", "d">>
      [] word = "--" -> <<"-", "-">>
      [] word = "-" -> <<"-">>
      [] word = "" -> <<>>

\* price.rs:135, price.rs:151
UnlimitedWords ==
    {Chars(w) : w \in {"nan", "n/a", "unlimited", "--", "-", ""}}

\* str::trim
Trim(s) ==
    LET kept == {k \in 1..Len(s) : s[k] \notin Whitespace}
    IN  IF kept = {} THEN <<>>
        ELSE SubSeq(s, CHOOSE k \in kept : \A j \in kept : k <= j,
                       CHOOSE k \in kept : \A j \in kept : k >= j)

\* str::to_lowercase
ToLowercase(s) ==
    [k \in 1..Len(s) |->
        CASE s[k] = "K" -> "k" [] s[k] = "M" -> "m" [] s[k] = "N" -> "n"
          [] s[k] = "A" -> "a" [] s[k] = "U" -> "u" [] s[k] = "L" -> "l"
          [] s[k] = "I" -> "i" [] s[k] = "T" -> "t" [] s[k] = "E" -> "e"
          [] s[k] = "D" -> "d" [] OTHER -> s[k]]

\* str::trim_end_matches(c): every trailing c is removed
TrimEndMatches(s, c) ==
    LET kept == {k \in 1..Len(s) : s[k] /= c}
    IN  IF kept = {} THEN <<>>
        ELSE SubSeq(s, 1, CHOOSE k \in kept : \A j \in kept : k >= j)

\* str::replace(c, "")
Remove(s, c) == LET Other(x) == x /= c IN SelectSeq(s, Other)

\* str::parse::<usize> on the characters explored: one digit or more
ParseUsize(s) ==
    IF s /= <<>> /\ \A k \in 1..Len(s) : s[k] \in Digits
    THEN Ok(DecimalValue(s))
    ELSE Err(<<"invalid digit found in string">>)

\* str::parse::<f64> on the characters explored: digits with at most one
\* point and one digit or more; the value is num / 10^decimals
ParseF64(s) ==
    LET points == {k \in 1..Len(s) : s[k] = "."}
    IN  IF /\ \A k \in 1..Len(s) : s[k] \in Digits \cup {"."}
           /\ Cardinality(points) <= 1
           /\ Len(s) > Cardinality(points)
        THEN Ok([num |-> DecimalValue(Remove(s, ".")),
                 decimals |-> IF points = {} THEN 0
                              ELSE Len(s) - (CHOOSE k \in points : TRUE)])
        ELSE Err(<<"invalid float literal">>)

\* the decimal without the zeros that end its fraction
RECURSIVE Reduced(_)
Reduced(x) ==
    IF x.decimals > 0 /\ x.num % 10 = 0
    THEN Reduced([num |-> x.num \div 10, decimals |-> x.decimals - 1])
    ELSE x

\* the decimals x of at most four characters over LimitDigits whose nearest f64
\* times 1000000.0 is, in IEEE 754 binary64 arithmetic, below the integer
\* that x * 1000000 is: 4.1 (4099999.9999999995) and 4.14; for the factor
\* 1000.0 there is none
F64ProductFallsShort ==
    {[num |-> 41, decimals |-> 1], [num |-> 414, decimals |-> 2]}

\* (base_value * factor) as usize (price.rs:168, price.rs:180): the f64
\* product with its fraction cut off
ProductAsUsize(x, factor) ==
    LET exact == IF Pow10(x.decimals) <= factor
                 THEN x.num * (factor \div Pow10(x.decimals))
                 ELSE x.num \div (Pow10(x.decimals) \div factor)
    IN  IF factor = 1000000 /\ Reduced(x) \in F64ProductFallsShort
        THEN exact - 1
        ELSE exact

\* usize::MAX, kept apart from the numbers that can be explored
UnlimitedTokens == [max |-> TRUE, n |-> 0]
Tokens(n) == [max |-> FALSE, n |-> n]

\* price.rs:159-181: a limit that ends with the suffix
ParseScaled(limit_str, suffix, factor) ==
    LET base == Remove(TrimEndMatches(limit_str, suffix), ",")
    IN  IF ParseF64(base).kind = "Err" THEN ParseF64(base)
        ELSE Ok(Tokens(ProductAsUsize(ParseF64(base).value, factor)))

\* parse_token_limit (price.rs:146-188)
ParseTokenLimit(raw) ==
    LET limit_str == ToLowercase(Trim(raw))
    IN  IF limit_str \in UnlimitedWords THEN Ok(UnlimitedTokens)
        ELSE IF Last(limit_str) = "k" THEN ParseScaled(limit_str, "k", 1000)
        ELSE IF Last(limit_str) = "m" THEN ParseScaled(limit_str, "m", 1000000)
        ELSE IF ParseUsize(Remove(limit_str, ",")).kind = "Err"
             THEN ParseUsize(Remove(limit_str, ","))
        ELSE Ok(Tokens(ParseUsize(Remove(limit_str, ",")).value))

\* the token limits explored: every text of at most MaxLimitLen of these
\* characters, and the texts the table uses
LimitStrings ==
    SeqsUpTo(LimitDigits \cup {".", ",", "k", "K", "m", "M"}, MaxLimitLen)
    \cup UnlimitedWords
    \cup {<<"2", "0", "0", "k">>, <<"1", "M">>, <<"4", ".", "1", "M">>,
          <<"1", ",", "0", "0", "0">>, <<" ", "1", "0", "k", " ">>,
          <<"N", "/", "A">>, <<"U", "n", "l", "i", "m", "i", "t", "e", "d">>,
          <<"1", "0", "0", "k", "b">>}

ParseTokenLimitReturns ==
    /\ call.fn = "parse_token_limit"
    /\ returned = NotReturned
    /\ returned' = ParseTokenLimit(call.arg.limit_str)
    /\ UNCHANGED <<call, streamVars, appVars, input_sender, ui_pc,
                   should_send_input, crashed, taskVars, received,
                   last_enter, costVars, estimatorVars, configVars>>


\* the number a text writes with digits, commas and at most one point, as
\* [num, decimals]; it writes none when it has no digit
IsNumeral(s) ==
    /\ \A k \in 1..Len(s) : s[k] \in Digits \cup {",", "."}
    /\ Cardinality({k \in 1..Len(s) : s[k] = "."}) <= 1
    /\ \E k \in 1..Len(s) : s[k] \in Digits

NumeralValue(s) ==
    LET t == Remove(s, ",")
        IsDigit(c) == c \in Digits
        after == {k \in 1..Len(t) : \E j \in 1..k : t[j] = "."}
    IN  [num |-> DecimalValue(SelectSeq(t, IsDigit)),
         decimals |-> IF after = {} THEN 0 ELSE Cardinality(after) - 1]

\* C28: parse_token_limit returns 200000 for "200k", 1000000 for "1M" and
\* the sentinel for "unlimited", "n/a", "nan", "--", "-" and the empty
\* text; a number followed by k or M, in either case and with commas
\* allowed, is returned multiplied by 1000 or by 1000000 whenever that
\* product is an integer, and a number written with digits and commas alone
\* is returned as it is.
C28_TokenLimitIsScaled ==
    (call.fn = "parse_token_limit" /\ returned.kind /= "pending") =>
        LET s == call.arg.limit_str
            body == SubSeq(s, 1, Len(s) - 1)
            x == NumeralValue(body)
            Scaled(factor) ==
                Pow10(x.decimals) <= factor =>
                    returned =
                        Ok(Tokens(x.num * (factor \div Pow10(x.decimals))))
        IN  /\ s = <<"2", "0", "0", "k">> => returned = Ok(Tokens(200000))
            /\ s = <<"1", "M">> => returned = Ok(Tokens(1000000))
            /\ s \in UnlimitedWords => returned = Ok(UnlimitedTokens)
            /\ (Len(s) > 1 /\ Last(s) \in {"k", "K"} /\ IsNumeral(body))
                  => Scaled(1000)
            /\ (Len(s) > 1 /\ Last(s) \in {"m", "M"} /\ IsNumeral(body))
                  => Scaled(1000000)
            /\ (IsNumeral(s) /\ \A k \in 1..Len(s) : s[k] /= ".")
                  => returned = Ok(Tokens(NumeralValue(s).num))

\* ------------------------------------------------------------------------
\* price.rs: the pricing table
\* ------------------------------------------------------------------------

\* lines of a pricing table that is explored
MaxTableLines == 4

\* app.rs:75
MODEL == "claude-3-7-sonnet-20250219"

\* parse_cost (price.rs:125-143), in whole dollars: -1.0 for the words that
\* stand for no price, else the digits and the point of the text parsed as
\* f64; the costs explored have no cents
ParseCost(cost_str) ==
    LET IsNumeric(c) == c \in Digits \cup {"."}
        cleaned == SelectSeq(Remove(cost_str, "$"), IsNumeric)
    IN  IF cost_str \in UnlimitedWords THEN Ok(-1)
        ELSE IF ParseF64(cleaned).kind = "Err" THEN ParseF64(cleaned)
        ELSE CASE Reduced(ParseF64(cleaned).value).decimals = 0 ->
                      Ok(Reduced(ParseF64(cleaned).value).num)

\* a line of the markdown: whether it starts with '|', and the texts
\* between its '|' characters (for a line without any, the line itself); a
\* name is kept as one character
TableLine(cells) == [bar |-> TRUE, cells |-> cells]
ProseLine(text) == [bar |-> FALSE, cells |-> <<text>>]

HeaderLine ==
    TableLine(<<<<" ", "Model Name", " ">>, <<" ", "Prompt Cost", " ">>,
                <<" ", "Completion Cost", " ">>, <<" ", "Max Prompt Tokens", " ">>,
                <<" ", "Max Output Tokens", " ">>>>)

SeparatorLine ==
    TableLine([k \in 1..5 |-> <<"-", "-", "-">>])

Row(name, prompt_cost, completion_cost) ==
    TableLine(<<<<" ", name, " ">>, <<" ">> \o prompt_cost \o <<" ">>,
                <<" ">> \o completion_cost \o <<" ">>,
                <<" ", "2", "0", "0", "k", " ">>, <<" ", "8", "k", " ">>>>)

\* the lines a fetched markdown is made of
PricingLines ==
    {HeaderLine, SeparatorLine,
     Row(MODEL, <<"$", "3">>, <<"$", "1", "5">>),
     Row(MODEL, <<"-", "-">>, <<"$", "1", "5">>),
     Row("gpt-4o", <<"$", "5">>, <<"$", "1", "5">>),
     Row("gpt-4o", <<"f", "r", "e", "e">>, <<"$", "1", "5">>),
     ProseLine(<<"Prices of ", MODEL, " per 1M tokens">>),
     ProseLine(<<>>)}

\* str::starts_with("| Model Name") (price.rs:54)
IsHeader(line) ==
    /\ line.bar
    /\ StartsWith(line.cells[1], <<" ", "Model Name">>)

\* str::contains(_model_name) (price.rs:71)
LineContains(line, name) ==
    \E k \in 1..Len(line.cells) : Contains(line.cells[k], <<name>>)

\* price.rs:81-85: the trimmed texts between the '|', the empty ones left
\* out
Columns(line) ==
    LET trimmed == [k \in 1..Len(line.cells) |-> Trim(line.cells[k])]
        NotEmpty(s) == s /= <<>>
    IN  SelectSeq(trimmed, NotEmpty)

\* price.rs:94-99: the first of the four fields that does not parse, if any
FieldError(columns) ==
    IF ParseCost(columns[2]).kind = "Err" THEN ParseCost(columns[2])
    ELSE IF ParseCost(columns[3]).kind = "Err" THEN ParseCost(columns[3])
    ELSE IF ParseTokenLimit(columns[4]).kind = "Err"
    THEN ParseTokenLimit(columns[4])
    ELSE IF ParseTokenLimit(columns[5]).kind = "Err"
    THEN ParseTokenLimit(columns[5])
    ELSE Ok(TRUE)

\* price.rs:102-108
ModelPricing(columns) ==
    [model_name |-> columns[1],
     input_cost_per_million |-> ParseCost(columns[2]).value,
     output_cost_per_million |-> ParseCost(columns[3]).value,
     max_prompt_tokens |-> ParseTokenLimit(columns[4]).value,
     max_output_tokens |-> ParseTokenLimit(columns[5]).value]

\* HashMap::insert (price.rs:111)
Insert(models, key, value) ==
    [k \in DOMAIN models \cup {key} |-> IF k = key THEN value ELSE models[k]]

\* the loop of price.rs:69-113 over the lines that follow the separator
RECURSIVE ReadRows(_, _, _)
ReadRows(rows, model_name, models) ==
    IF rows = <<>> THEN Ok(models)
    ELSE IF model_name.some /\ ~LineContains(Head(rows), model_name.v)
    THEN ReadRows(Tail(rows), model_name, models)
    ELSE IF ~Head(rows).bar THEN Ok(models)
    ELSE IF Len(Columns(Head(rows))) < 5
    THEN ReadRows(Tail(rows), model_name, models)
    ELSE IF FieldError(Columns(Head(rows))).kind = "Err"
    THEN FieldError(Columns(Head(rows)))
    ELSE ReadRows(Tail(rows), model_name,
                  Insert(models, Columns(Head(rows))[1],
                         ModelPricing(Columns(Head(rows)))))

\* parse_pricing_table (price.rs:44-122)
ParsePricingTable(markdown, model_name) ==
    LET headers == {k \in 1..Len(markdown) : IsHeader(markdown[k])}
        header == CHOOSE k \in headers : \A j \in headers : k <= j
        read == ReadRows(SubSeq(markdown, header + 2, Len(markdown)),
                         model_name, <<>>)
    IN  IF headers = {}
        THEN Err(<<"Could not find the pricing table header in the markdown">>)
        ELSE IF read.kind = "Ok" /\ DOMAIN read.value = {}
        THEN Err(<<"No model pricing information found in the table">>)
        ELSE read

\* the result of unwrap on an Err: the thread panics and nothing is
\* returned
Panic == [kind |-> "Panic"]

\* what reqwest::get and response.text() give fetch_model_pricing
Fetched(kind, markdown) == [kind |-> kind, markdown |-> markdown]

\* fetch_model_pricing (price.rs:17-41); Ok(None) is Ok(NoPricing)
FetchModelPricing(fetched, model_name) ==
    IF fetched.kind = "network_error" THEN Ok(NoPricing)
    ELSE IF fetched.kind = "text_error"
    THEN Err(<<"Failed to extract text from response">>)
    ELSE IF ParsePricingTable(fetched.markdown, model_name).kind = "Err"
    THEN Panic
    ELSE Ok(ParsePricingTable(fetched.markdown, model_name).value)

\* the filters explored
Filters == {NoText, [some |-> TRUE, v |-> MODEL]}

ParsePricingTableReturns ==
    /\ call.fn = "parse_pricing_table"
    /\ returned = NotReturned
    /\ returned' = ParsePricingTable(call.arg.markdown, call.arg.model_name)
    /\ UNCHANGED <<call, streamVars, appVars, input_sender, ui_pc,
                   should_send_input, crashed, taskVars, received,
                   last_enter, costVars, estimatorVars, configVars>>

FetchModelPricingReturns ==
    /\ call.fn = "fetch_model_pricing"
    /\ returned = NotReturned
    /\ returned' = FetchModelPricing(call.arg.fetched, call.arg.model_name)
    /\ UNCHANGED <<call, streamVars, appVars, input_sender, ui_pc,
                   should_send_input, crashed, taskVars, received,
                   last_enter, costVars, estimatorVars, configVars>>

\* characters of a text whose cost is estimated
MaxTextLen == 3

\* the texts whose cost is estimated
EstimatedTexts == SeqsUpTo({" ", "q"}, MaxTextLen)

\* the entries the loader produces from a table of one row, with and
\* without the filter
LoadedEntries ==
    UNION {LET table == ParsePricingTable(<<HeaderLine, SeparatorLine, row>>, f)
           IN  IF table.kind = "Ok"
               THEN {table.value[name] : name \in DOMAIN table.value}
               ELSE {} :
           row \in PricingLines, f \in Filters}

EstimateCalls ==
    {Call("get_tokens_heur_price",
          [content |-> t, toktype |-> ty, model_price |-> e]) :
        t \in EstimatedTexts, ty \in {"InputToken", "OutputToken"},
        e \in LoadedEntries}

\* ClauChatApp::get_tokens_heur_price (app.rs:243-255) with the tokenizer
\* loaded
GetTokensHeurPriceReturns ==
    /\ call.fn = "get_tokens_heur_price"
    /\ returned = NotReturned
    /\ returned' = Ok(GetTokensHeurPrice(call.arg.content, call.arg.toktype,
                                         call.arg.model_price))
    /\ UNCHANGED <<call, streamVars, appVars, input_sender, ui_pc,
                   should_send_input, crashed, taskVars, received,
                   last_enter, costVars, estimatorVars, configVars>>

\* the program before its first frame, with no call made yet
BeforeCall ==
    /\ NewApp
    /\ api_key = <<"k">>
    /\ pricing_data = NoPricing
    /\ theme = DefaultTheme
    /\ font_size = DefaultFontSize
    /\ dragging = FALSE
    /\ persisted = Document(api_key, DefaultTheme, DefaultFontSize)
    /\ returned = NotReturned

\* one call of a function of api.rs
CallNext ==
    \/ SendMessageReturns
    \/ SendMessageStreamingReturns

CallInit ==
    /\ BeforeCall
    /\ call \in ApiCalls

CallSpec == CallInit /\ [][CallNext]_vars

\* one call of a function of price.rs, or of the estimate of app.rs
PriceNext ==
    \/ ParseTokenLimitReturns
    \/ ParsePricingTableReturns
    \/ FetchModelPricingReturns
    \/ GetTokensHeurPriceReturns

\* the texts fetched are the sequences of at most MaxTableLines lines
PriceInit ==
    /\ BeforeCall
    /\ \/ \E limit_str \in LimitStrings :
             call = Call("parse_token_limit", [limit_str |-> limit_str])
       \/ \E n \in 0..MaxTableLines :
             \E markdown \in [1..n -> PricingLines], model_name \in Filters :
                \/ call = Call("parse_pricing_table",
                               [markdown |-> markdown, model_name |-> model_name])
                \/ call = Call("fetch_model_pricing",
                               [fetched |-> Fetched("text", markdown),
                                model_name |-> model_name])
       \/ \E kind \in {"network_error", "text_error"}, model_name \in Filters :
             call = Call("fetch_model_pricing",
                         [fetched |-> Fetched(kind, <<>>), model_name |-> model_name])
       \/ call \in EstimateCalls

PriceSpec == PriceInit /\ [][PriceNext]_vars

\* the markdown up to, and without, the first line after the separator
\* that does not start with '|'
TruncatedTable(markdown) ==
    LET headers == {k \in 1..Len(markdown) : IsHeader(markdown[k])}
        header == CHOOSE k \in headers : \A j \in headers : k <= j
        ends == {k \in (header + 2)..Len(markdown) : ~markdown[k].bar}
    IN  IF headers = {} \/ ends = {} THEN markdown
        ELSE SubSeq(markdown, 1, (CHOOSE k \in ends : \A j \in ends : k <= j) - 1)

\* C26: parse_pricing_table, with or without a filter, returns what it
\* returns for the markdown cut at the first line after the separator that
\* does not start with '|': no line from there on adds, replaces or fails
\* an entry.
C26_RowsEndAtFirstNonTableLine ==
    (call.fn = "parse_pricing_table" /\ returned.kind /= "pending") =>
        returned = ParsePricingTable(TruncatedTable(call.arg.markdown),
                                     call.arg.model_name)

\* C27: parse_pricing_table returns an error when the markdown has no
\* header line, and never an empty mapping; whenever it returns an error
\* for the text that was fetched, fetch_model_pricing returns an error
\* value to its caller.
C27_ParseErrorReachesCaller ==
    /\ (call.fn = "parse_pricing_table" /\ returned.kind /= "pending") =>
          /\ returned.kind \in {"Ok", "Err"}
          /\ (\A k \in 1..Len(call.arg.markdown) :
                  ~IsHeader(call.arg.markdown[k])) => returned.kind = "Err"
          /\ returned.kind = "Ok" => DOMAIN returned.value /= {}
    /\ (/\ call.fn = "fetch_model_pricing"
        /\ returned.kind /= "pending"
        /\ call.arg.fetched.kind = "text"
        /\ ParsePricingTable(call.arg.fetched.markdown,
                             call.arg.model_name).kind = "Err")
          => returned.kind = "Err"

\* C29: for an entry produced by the loader, the estimate for InputToken is
\* never negative, and a text of at least as many tokens never has a
\* smaller estimate.
C29_EstimateGrowsWithTokens ==
    (/\ call.fn = "get_tokens_heur_price"
     /\ returned.kind /= "pending"
     /\ call.arg.toktype = "InputToken") =>
        /\ returned.kind = "Ok"
        /\ returned.value >= 0
        /\ \A t \in EstimatedTexts :
              TokenCountHeuristic(t) >= TokenCountHeuristic(call.arg.content)
                 => GetTokensHeurPrice(t, "InputToken", call.arg.model_price)
                       >= returned.value

\* ------------------------------------------------------------------------
\* The configuration file and the settings panel
\* ------------------------------------------------------------------------

\* config.rs:15-23
Themes == {"light", "dark"}

\* positions of the slider of ui.rs:92 (12.0..=24.0): both ends and the
\* default
FontSizes == {12, DefaultFontSize, 24}

\* the file after File::create has emptied it and write_all has failed
\* (config.rs:64-66): no JSON document
BrokenDocument ==
    [exists |-> TRUE, api_key |-> <<>>, theme |-> "unreadable", font_size |-> 0]

\* Config::load().unwrap_or_default() (app.rs:73, config.rs:48-59): the
\* document, or the default configuration when there is no file or no
\* document in it
Load(file) ==
    IF file.exists /\ file /= BrokenDocument THEN file
    ELSE Document(<<>>, DefaultTheme, DefaultFontSize)

\* Config::save (config.rs:61-69): the file after it, when it succeeds,
\* when the file cannot be created, and when writing fails
SaveOutcomes == {"ok", "create_fails", "write_fails"}

Save(outcome, key, th, size) ==
    CASE outcome = "ok" -> Document(key, th, size)
      [] outcome = "create_fails" -> persisted
      [] outcome = "write_fails" -> BrokenDocument

\* a frame (app.rs:393-460) without a send, in which render_header
\* reports the key k, if any
SettingsFrame(k) ==
    /\ UpdateApp(k, Nothing, FALSE)
    /\ input_cost' = SlotAfterRead(input_cost)
    /\ input_cost_display' = DisplayAfterRead(input_cost_display, input_cost)
    /\ UNCHANGED <<input_channel, estimator, sent_input>>

\* ui.rs:63-66, app.rs:372-381: the key field changes, update_api_key
\* stores the key and calls save_config, which only logs a failure
ChangeApiKey(k, outcome) ==
    /\ SettingsFrame(Changed(k))
    /\ persisted' = Save(outcome, k, theme, font_size)
    /\ UNCHANGED <<theme, font_size, dragging>>

\* ui.rs:69-86: one of the two theme labels is clicked
ClickTheme(th) ==
    /\ th /= theme
    /\ SettingsFrame(Nothing)
    /\ theme' = th
    /\ UNCHANGED <<font_size, dragging, persisted>>

\* ui.rs:91-109: the slider is being dragged to another size; neither
\* branch saves
SliderDrag(size) ==
    /\ size /= font_size
    /\ SettingsFrame(Nothing)
    /\ font_size' = size
    /\ dragging' = TRUE
    /\ UNCHANGED <<theme, persisted>>

\* ui.rs:94-100: the drag stops
SliderDragStop(outcome) ==
    /\ dragging
    /\ SettingsFrame(Nothing)
    /\ dragging' = FALSE
    /\ persisted' = Save(outcome, api_key, theme, font_size)
    /\ UNCHANGED <<theme, font_size>>

\* ui.rs:101-109: the size changes without a drag (a click on the rail, the
\* keyboard); a failed save puts the old size back
SliderChange(size, outcome) ==
    /\ ~dragging
    /\ size /= font_size
    /\ SettingsFrame(Nothing)
    /\ font_size' = IF outcome = "ok" THEN size ELSE font_size
    /\ persisted' = Save(outcome, api_key, theme, size)
    /\ UNCHANGED <<theme, dragging>>

\* on_exit (app.rs:462-464): the window is closed between two frames
OnExit(outcome) ==
    /\ ui_pc = "frame"
    /\ ~crashed
    /\ ui_pc' = "exited"
    /\ persisted' = Save(outcome, api_key, theme, font_size)
    /\ UNCHANGED <<appVars, input_sender, should_send_input, crashed,
                   taskVars, received, last_enter, costVars>>
    /\ UNCHANGED <<streamVars, estimatorVars, callVars>>
    /\ UNCHANGED <<theme, font_size, dragging>>

ConfigNext ==
    \/ \E k \in Keys, o \in SaveOutcomes : ChangeApiKey(k, o)
    \/ \E th \in Themes : ClickTheme(th)
    \/ \E size \in FontSizes : SliderDrag(size)
    \/ \E o \in SaveOutcomes : SliderDragStop(o)
    \/ \E size \in FontSizes, o \in SaveOutcomes : SliderChange(size, o)
    \/ \E o \in SaveOutcomes : OnExit(o)

\* ClauChatApp::new (app.rs:67-109) with whatever the file holds
ConfigInit ==
    /\ NewApp
    /\ pricing_data = SomePricing(TRUE, 3, 15)
    /\ persisted \in {NoDocument, BrokenDocument}
                     \cup {Document(k, th, size) :
                             k \in Keys, th \in Themes, size \in FontSizes}
    /\ api_key = Load(persisted).api_key
    /\ theme = Load(persisted).theme
    /\ font_size = Load(persisted).font_size
    /\ dragging = FALSE
    /\ call = NoCall
    /\ returned = NotReturned

ConfigSpec == ConfigInit /\ [][ConfigNext]_vars

\* the file holds the configuration that is in memory
InSync == persisted = Document(api_key, theme, font_size)

\* C30: after a frame that changed the key, the theme or the font size
\* (for a drag of the slider, after the frame in which the drag stops) and
\* after the exit, if the save did not fail, the file holds the
\* configuration that is in memory.
C30_SavedAfterEveryChange ==
    [][/\ (\E k \in Keys : ChangeApiKey(k, "ok")) => InSync'
       /\ (\E th \in Themes : ClickTheme(th)) => InSync'
       /\ (\E size \in FontSizes : SliderChange(size, "ok")) => InSync'
       /\ SliderDragStop("ok") => InSync'
       /\ OnExit("ok") => InSync']_vars

\* C31: the step that spawns a task hands it the conversation as it was
\* before the step with a User message holding the input as its last
\* element; that list is the new conversation without its last element, the
\* placeholder of this send.
C31_RequestExcludesOwnPlaceholder ==
    [][Len(tasks') > Len(tasks) =>
          LET request == Last(tasks').messages
          IN  /\ request = Append(messages, Message("User", input))
              /\ request = SubSeq(messages', 1, Len(messages') - 1)
              /\ Last(request).role = "User"]_vars

\* the task of a second send has been spawned after a first send whose
\* message holds text: its request is the greeting, the first exchange and
\* the new User message
C31_Witness ==
    /\ Len(tasks) = 2
    /\ tasks[2].pc = "open"
    /\ Len(tasks[2].messages) = 4
    /\ tasks[2].messages[3].role = "Assistant"
    /\ tasks[2].messages[3].content /= <<>>
    /\ Len(messages) = 5

\* C32: every delta a frame receives comes out of the channel of the newest
\* task and is one of the deltas that task pushed; and in the step that
\* spawns a task every earlier task has returned and every earlier channel
\* is empty, so that the receiver dropped at app.rs:307 holds nothing and
\* nothing can be sent to it later.
C32_DeltasComeFromNewestSend ==
    [][/\ Len(received') > Len(received) =>
             /\ Last(received').chan = Len(tasks)
             /\ \E k \in 1..Len(pushed[Len(tasks)]) :
                   pushed[Len(tasks)][k] = Last(received').delta
       /\ Len(tasks') > Len(tasks) =>
             \A i \in 1..Len(tasks) :
                /\ tasks[i].pc = "done"
                /\ channels[i] = <<>>
                /\ tasks'[i].pc = "done"
                /\ channels'[i] = <<>>]_vars

\* the second send has been accepted after the deltas of the first were
\* received, and a delta of the second task has been applied
C32_Witness ==
    /\ Len(tasks) = 2
    /\ stream_receiver = 2
    /\ received /= <<>>
    /\ Last(received).chan = 2
    /\ Last(messages).content = Last(received).delta.content
    /\ Last(messages).content /= <<>>
    /\ messages[3].content /= <<>>

\* C33: a frame in which Enter is pressed with a non-blank input, no send in
\* progress and no client sets error to the text of app.rs:266, starts no
\* key validation, spawns no task and leaves the messages, the input as
\* typed, is_sending and client as they are; client goes from None to Some
\* only in a frame that changes the key to a non-empty one, and that frame
\* ends with the client of the new key and without error; a frame that
\* changes the key to the empty one ends without client; and a frame that
\* changes the key leaves the messages and is_sending as the delta polled
\* at its start (app.rs:408-412) left them, whether a send is in progress
\* or not.
C33_NoClientNoSend ==
    [][/\ (ui_pc = "frame" /\ last_enter' /\ ~client.some) =>
             \A t \in InputEvents :
                LET app == AfterInput(Nothing, t)
                IN  (/\ ~OnlyWhitespace(app.input)
                     /\ ~app.is_sending
                     /\ Update(Nothing, t, TRUE))
                    => /\ error' = SomeText(NotConfiguredText)
                       /\ ui_pc' = "frame"
                       /\ tasks' = tasks
                       /\ messages' = app.messages
                       /\ input' = app.input
                       /\ ~is_sending'
                       /\ ~client'.some
       /\ (~client.some /\ client'.some) =>
             /\ ui_pc = "frame"
             /\ api_key' /= api_key
             /\ api_key' /= <<>>
             /\ client' = SomeClient(api_key')
             /\ ~error'.some
       /\ api_key' /= api_key =>
             /\ ui_pc = "frame"
             /\ client'.some <=> api_key' /= <<>>
             /\ messages' = AfterPoll.messages
             /\ is_sending' = AfterPoll.is_sending
             /\ tasks' = tasks]_vars

\* after a first send the key has been emptied, and Enter with a typed
\* input has only put the text of app.rs:266 into error
C33_Witness ==
    /\ Len(tasks) = 1
    /\ ~client.some
    /\ api_key = <<>>
    /\ last_enter
    /\ ~OnlyWhitespace(input)
    /\ ~is_sending
    /\ error = SomeText(NotConfiguredText)
    /\ ui_pc = "frame"
    /\ ~crashed

\* the content of the newest received delta that was applied to the open
\* message, empty if none was
AppliedText ==
    LET Applied(r) == ~StartsWith(r.delta.content, STREAM_ERROR_TOKEN)
        sel == SelectSeq(received, Applied)
    IN  IF sel = <<>> THEN <<>> ELSE Last(sel).delta.content

\* C34: once the terminal delta of a failed send has been handled, and
\* until the next send is accepted, the conversation ends with the User
\* message of that send followed by an Assistant message holding the text
\* applied before the error; the step that spawns the next task hands it a
\* request that ends with that User message, that Assistant message and the
\* new User message.
C34_PlaceholderStaysAfterFailure ==
    [][/\ AfterFailedSend' =>
             /\ Len(messages') >= 3
             /\ Last(messages').role = "Assistant"
             /\ Last(messages').content = AppliedText'
             /\ messages'[Len(messages') - 1].role = "User"
       /\ (AfterFailedSend /\ Len(tasks') > Len(tasks)) =>
             LET request == Last(tasks').messages
                 n == Len(request)
             IN  /\ n >= 4
                 /\ request[n].role = "User"
                 /\ request[n - 1] = Message("Assistant", AppliedText)
                 /\ request[n - 2].role = "User"]_vars

\* a send failed before any text arrived, and the task of the next send
\* has been spawned with a request that holds the empty placeholder between
\* the two User messages
C34_Witness ==
    /\ Len(tasks) = 2
    /\ tasks[2].pc = "open"
    /\ Len(tasks[2].messages) = 4
    /\ tasks[2].messages[2].role = "User"
    /\ tasks[2].messages[3] = Message("Assistant", <<>>)
    /\ tasks[2].messages[4].role = "User"

\* the delta d received from channel i was built in an Err arm of the task
\* (app.rs:331-335, app.rs:340-343): the only complete delta of a task that
\* ran into an error
FromErrorPath(d, i) == failures[i] /= <<>> /\ d.is_complete

\* C35: in a frame that receives a delta, changes no key and sends nothing,
\* the delta ends up in error, the messages staying as they are, exactly
\* when it was built in an Err arm of the task; any other delta becomes the
\* content of the open message.
C35_ErrorIffFromErrorPath ==
    [][(Len(received') > Len(received) /\ ~last_enter' /\ api_key' = api_key) =>
          LET d == Last(received').delta
              i == Last(received').chan
          IN  /\ FromErrorPath(d, i) <=>
                    (error' = SomeText(d.content) /\ messages' = messages)
              /\ ~FromErrorPath(d, i) => Last(messages').content = d.content]_vars

\* C36: a frame in which the input field changes is run with the channel
\* to the estimator thread in place, and does not end in a panic.
C36_SenderExistsAtInputChange ==
    [][(ui_pc = "frame" /\ input' /= input) =>
          (input_sender /\ ~crashed')]_vars

\* ------------------------------------------------------------------------
\* ChatRenderer::find_code_blocks (chat_render.rs:94-175) called on its own
\* ------------------------------------------------------------------------

\* the longest content explored, in characters
MaxContentLen == 5

\* the three backticks of chat_render.rs:142 are kept as one character of
\* three bytes; the content is made of it, the newline, the space, a letter
\* of one byte and a letter of two bytes, so that the backticks are found
\* exactly where this character stands
Fence == "fence"
Wide == "wide"
ContentChars == {Fence, "\n", " ", "x", Wide}

\* char::len_utf8, with the three backticks counted as such
Width(c) == IF c = Fence THEN 3 ELSE IF c = Wide THEN 2 ELSE 1

\* str::len: the length in bytes
RECURSIVE ByteLen(_)
ByteLen(s) == IF s = <<>> THEN 0 ELSE Width(Head(s)) + ByteLen(Tail(s))

\* &content[lo..hi]: the characters whose first byte is at lo or after it
\* and before hi
ByteSlice(s, lo, hi) ==
    LET Inside(k) == lo <= ByteLen(SubSeq(s, 1, k - 1))
                     /\ ByteLen(SubSeq(s, 1, k - 1)) < hi
        F[k \in 0..Len(s)] ==
            IF k = 0 THEN <<>>
            ELSE IF Inside(k) THEN Append(F[k - 1], s[k]) ELSE F[k - 1]
    IN  F[Len(s)]

\* chat_render.rs:101-119: for every newline the pair of the end of the
\* line before it (0 for the first) and the position after it
LinePositionsFold(content) ==
    LET F[k \in 0..Len(content)] ==
            IF k = 0 THEN <<>>
            ELSE IF content[k] = "\n"
            THEN LET start == IF F[k - 1] = <<>> THEN 0
                              ELSE F[k - 1][Len(F[k - 1])][2]
                 IN  Append(F[k - 1],
                            <<start, ByteLen(SubSeq(content, 1, k))>>)
            ELSE F[k - 1]
    IN  F[Len(content)]

\* the text after the last newline is not taken for a line: a plausible
\* slip
LinePositionsNoLastLine(content) == LinePositionsFold(content)

\* chat_render.rs:120-130: the last line is added if the content does not
\* end with a newline
LinePositions(content) ==
    LET positions == LinePositionsFold(content)
        content_len == ByteLen(content)
    IN  IF positions = <<>> \/ positions[Len(positions)][2] < content_len
        THEN LET start == IF positions = <<>> THEN 0
                          ELSE positions[Len(positions)][2]
             IN  Append(positions, <<start, content_len>>)
        ELSE positions

\* chat_render.rs:147-157: the text after the fence, trimmed, or None
Language(line_trimmed) ==
    LET lang == Trim(SubSeq(line_trimmed, 2, Len(line_trimmed)))
    IN  IF lang = <<>> THEN NoText ELSE SomeText(lang)

\* the locals of find_code_blocks before its loop (chat_render.rs:95-98)
NewScan ==
    [blocks |-> <<>>, in_code_block |-> FALSE, start_idx |-> 0,
     language |-> NoText]

\* chat_render.rs:132-166: one pass of the loop, for the line at
\* line_start..line_end
ScanLine(scan, content, line_start, line_end) ==
    IF line_end <= line_start THEN scan
    ELSE LET line_trimmed == Trim(ByteSlice(content, line_start, line_end))
         IN  IF ~StartsWith(line_trimmed, <<Fence>>) THEN scan
             ELSE IF ~scan.in_code_block
             THEN [scan EXCEPT !.in_code_block = TRUE,
                               !.start_idx = line_start,
                               !.language = Language(line_trimmed)]
             ELSE [scan EXCEPT
                     !.in_code_block = FALSE,
                     !.blocks = IF line_end > scan.start_idx
                                THEN Append(@, [start |-> scan.start_idx,
                                                end |-> line_end,
                                                language |-> scan.language])
                                ELSE @,
                     !.language = IF line_end > scan.start_idx
                                  THEN NoText ELSE @]

\* chat_render.rs:169-172: an unclosed block runs to the end of the content
Unclosed(scan, content_len) ==
    IF scan.in_code_block
    THEN Append(scan.blocks, [start |-> scan.start_idx, end |-> content_len,
                              language |-> scan.language])
    ELSE scan.blocks

\* ChatRenderer::find_code_blocks (chat_render.rs:94-175)
FindCodeBlocks(content) ==
    LET lines == LinePositions(content)
        F[k \in 0..Len(lines)] ==
            IF k = 0 THEN NewScan
            ELSE ScanLine(F[k - 1], content, lines[k][1], lines[k][2])
    IN  Unclosed(F[Len(lines)], ByteLen(content))

FindCodeBlocksReturns ==
    /\ call.fn = "find_code_blocks"
    /\ returned = NotReturned
    /\ returned' = Ok(FindCodeBlocks(call.arg.content))
    /\ UNCHANGED <<call, streamVars, appVars, input_sender, ui_pc,
                   should_send_input, crashed, taskVars, received,
                   last_enter, costVars, estimatorVars, configVars>>

\* one call of find_code_blocks on a content of at most MaxContentLen
\* characters
RenderInit ==
    /\ BeforeCall
    /\ \E n \in 0..MaxContentLen :
          \E content \in [1..n -> ContentChars] :
             call = Call("find_code_blocks", [content |-> content])

RenderNext == FindCodeBlocksReturns

RenderSpec == RenderInit /\ [][RenderNext]_vars

\* the places where a line of the content begins, and where the line that
\* begins at b ends (its newline, or the end of the content)
LineFirsts(content) ==
    {b \in 1..Len(content) : b = 1 \/ content[b - 1] = "\n"}

LineLast(content, b) ==
    LET ends == {e \in b..Len(content) : content[e] = "\n"}
    IN  IF ends = {} THEN Len(content)
        ELSE CHOOSE e \in ends : \A j \in ends : e <= j

\* the lines whose first character after leading blanks is the fence
FenceLines(content) ==
    {b \in LineFirsts(content) :
        \E k \in b..LineLast(content, b) :
           /\ content[k] = Fence
           /\ \A j \in b..(k - 1) : content[j] \in Whitespace}

\* the k-th smallest element of a set of numbers
Nth(S, k) == CHOOSE x \in S : Cardinality({y \in S : y < x}) = k - 1

\* C37: the ranges returned by find_code_blocks are non-empty, lie within
\* 0..len(content), and each ends before or where the next begins; there is
\* one range for every two fence lines and one more if their number is odd;
\* the k-th range begins where the (2k-1)-th fence line begins and ends
\* where the 2k-th fence line ends, its newline included, or at the end of
\* the content if there is no 2k-th fence line.
C37_BlocksPairFenceLines ==
    (call.fn = "find_code_blocks" /\ returned.kind = "Ok") =>
        LET content == call.arg.content
            blocks == returned.value
            fences == FenceLines(content)
            m == Cardinality(fences)
        IN  /\ \A k \in 1..Len(blocks) :
                  /\ 0 <= blocks[k].start
                  /\ blocks[k].start < blocks[k].end
                  /\ blocks[k].end <= ByteLen(content)
            /\ \A k \in 1..(Len(blocks) - 1) :
                  blocks[k].end <= blocks[k + 1].start
            /\ Len(blocks) = (m + 1) \div 2
            /\ \A k \in 1..Len(blocks) :
                  /\ blocks[k].start =
                        ByteLen(SubSeq(content, 1, Nth(fences, 2 * k - 1) - 1))
                  /\ blocks[k].end =
                        IF 2 * k <= m
                        THEN ByteLen(SubSeq(content, 1,
                                 LineLast(content, Nth(fences, 2 * k))))
                        ELSE ByteLen(content)

\* a content with three fence lines, the last without newline: a closed
\* block from 0 and an unclosed one that runs to the end
C37_Witness ==
    /\ call.fn = "find_code_blocks"
    /\ returned.kind = "Ok"
    /\ Len(returned.value) = 2
    /\ returned.value[1].start = 0
    /\ returned.value[2].start = returned.value[1].end
    /\ returned.value[2].end = ByteLen(call.arg.content)
    /\ call.arg.content[Len(call.arg.content)] = Fence

====
